---- MODULE Spec2Model ----
(***************************************************************************)
(* Model of the iteration loop controller of ralphlike (runLoop) with the *)
(* stop-condition evaluator, the stop hook, the lifecycle hooks, the      *)
(* git commit and diff queries, the session directory with its ledger     *)
(* (progress.md) and the combined-prompt temporary file.                  *)
(* One action per suspension point of runLoop; the position is pc.        *)
(***************************************************************************)
EXTENDS Integers, Sequences, FiniteSets, TLC

(* ---------------------------- bounds ---------------------------------- *)

\* largest configured maxIterations explored
MaxIter == 2

\* largest agent / hook exit code explored
MaxExit == 2

(* ------------------------ program constants --------------------------- *)

\* ConfigSchema: maxIterations z.number().int().min(1)
MinIterations == 1

\* ErrorHandlingSchema: maxRetries z.number().int().min(0).max(10)
MinRetries == 0
MaxRetriesCap == 10

(* --------------------------- value sets ------------------------------- *)

Strategies == {"stop", "retry-once", "continue"}

ExitCodes == 0..MaxExit

\* Texts are sequences of characters.  "D" and "E" are ordinary
\* characters, "(" is the regular-expression metacharacter that makes a
\* pattern invalid when unbalanced.
Stdouts == {<< >>, <<"D">>}
Stderrs == {<< >>, <<"E">>}

\* the output-pattern strings explored: the empty string, a literal that
\* spans stdout and stderr, and an invalid regular expression
Patterns == {<< >>, <<"D", "E">>, <<"(">>}

\* errorHandling.maxRetries values explored: the two ends of its range
RetryLimits == {MinRetries, MaxRetriesCap}

\* the stop-hook command is optional in the schema
NoCommand == "<none>"
HookCommands == {NoCommand, "test -f DONE"}

\* how a child process started for the stop hook can end: it closes with
\* an exit code, it closes with a null code (killed by a signal), or the
\* spawn fails and the error event is delivered
ChildOutcomes ==
    [kind : {"close"}, code : ExitCodes] \cup
    {[kind |-> "signal", code |-> -1], [kind |-> "error", code |-> -1]}

NoChild == [kind |-> "none", code |-> -1]

\* how adapter.execute(command) can end: it resolves with an
\* ExecutionResult, or the promise rejects
ExecutionResults == [exitCode : ExitCodes, stdout : Stdouts, stderr : Stderrs]
Rejected == [exitCode |-> -1, stdout |-> << >>, stderr |-> << >>]
NoResult == [exitCode |-> -2, stdout |-> << >>, stderr |-> << >>]

\* the results of an agent that prints "D" and sometimes "E": its output
\* matches the pattern <<"D", "E">> or not, and it exits with 0 or not
TerseResults == [exitCode : {0, MaxExit}, stdout : {<<"D">>}, stderr : Stderrs]

\* the results of an agent that prints nothing
SilentResults == [exitCode : ExitCodes, stdout : {<< >>}, stderr : {<< >>}]

\* Lines that the parsers of the agent's output recognise: a usage report
\* of the input tokens, one of the output tokens, a cost line, and the
\* commit-message marker.  ReportedIn, ReportedOut and ReportedCost are
\* the numbers the lines carry and CommitText the text after the marker.
ReportedIn == 10
ReportedOut == 5
ReportedCost == 2
UsageIn == "input_tokens: 10"
UsageOut == "output_tokens: 5"
UsageCost == "Cost: $2"
CommitText == <<"feat: add login">>
Marker == "COMMIT_MSG: feat: add login"

\* the results of an agent that reports its token usage and proposes a
\* commit message: no output, the first usage line with the marker and
\* the character "D", the second usage line, or the cost line
ReportStdouts == {<< >>, <<UsageIn, Marker, "D">>, <<UsageOut>>, <<UsageCost>>}
ReportingResults ==
    [exitCode : {0, MaxExit}, stdout : ReportStdouts, stderr : Stderrs]

\* The loop settings explored.  A disabled output pattern keeps the
\* literal pattern and a disabled stop hook has no command: the pattern and
\* the command of a disabled condition are never read.
LoopSettings ==
    {c \in [maxIterations : MinIterations..MaxIter,
            strategy : Strategies,
            maxRetries : RetryLimits,
            stopMaxIterations : BOOLEAN,
            patternEnabled : BOOLEAN,
            pattern : Patterns,
            hookEnabled : BOOLEAN,
            hookCommand : HookCommands] :
        /\ ~c.patternEnabled => c.pattern = <<"D", "E">>
        /\ ~c.hookEnabled => c.hookCommand = NoCommand}

\* HooksSchema: each lifecycle hook is a command or null
LifecycleHooks == {"preIteration", "postIteration", "onError", "onComplete"}

\* RunLoopOptions.autoCommit is optional
AutoCommitOptions == {"undefined", "true", "false"}

\* The autoCommit option that the cli action passes to runLoop:
\* options.commit of .option("--no-commit"), which is true unless the flag
\* is given.
CliCommit(noCommit) == IF noCommit THEN "false" ELSE "true"

\* GitSchema: commitStrategy z.enum(["per-iteration", "on-stop"])
CommitStrategies == {"per-iteration", "on-stop"}

\* GitConfigSchema: commitMessageTemplate, a text with placeholders; the
\* schema default and the template that `rl init` writes
DefaultTemplate == <<"chore(rl): iteration ", "{iteration}", " - ", "{sessionName}">>
InitTemplate == <<"rl: iteration ", "{iteration}", " - ", "{sessionName}">>
Templates == {DefaultTemplate, InitTemplate}

\* a configuration: loop settings, the set of configured lifecycle hooks,
\* the autoCommit option of the call and the git section
Config(loop, hooks, autoCommit, gitAutoCommit, commitStrategy) ==
    [maxIterations |-> loop.maxIterations,
     strategy |-> loop.strategy,
     maxRetries |-> loop.maxRetries,
     stopMaxIterations |-> loop.stopMaxIterations,
     patternEnabled |-> loop.patternEnabled,
     pattern |-> loop.pattern,
     hookEnabled |-> loop.hookEnabled,
     hookCommand |-> loop.hookCommand,
     hooks |-> hooks,
     autoCommit |-> autoCommit,
     gitAutoCommit |-> gitAutoCommit,
     commitStrategy |-> commitStrategy,
     commitMessageTemplate |-> DefaultTemplate]

\* loop settings of the shortest run, ended by the output pattern, by the
\* stop hook or after the loop
ShortRunSettings ==
    {c \in LoopSettings :
        /\ c.maxIterations = MinIterations /\ c.maxRetries = MinRetries
        /\ ~c.stopMaxIterations
        /\ c.patternEnabled /\ c.pattern = <<"D", "E">>
        /\ c.hookEnabled /\ c.hookCommand # NoCommand}

\* loop settings of a run of two iterations with every stop condition
\* enabled
TwoIterationSettings ==
    {c \in LoopSettings :
        /\ c.maxIterations = MinIterations + 1 /\ c.maxRetries = MinRetries
        /\ c.stopMaxIterations
        /\ c.patternEnabled /\ c.pattern = <<"D", "E">>
        /\ c.hookEnabled /\ c.hookCommand # NoCommand}

\* The configurations explored.  DefaultConfigs: every loop setting with
\* the schema defaults for hooks (all null) and git (autoCommit false).
\* SessionConfigs: the loop settings of ShortRunSettings with auto-commit
\* requested by the caller.  ProcessConfigs: the loop settings of
\* TwoIterationSettings with lifecycle hooks configured and with
\* auto-commit off, per iteration and on stop.  ReportConfigs: the loop
\* settings of TwoIterationSettings as the cli passes them without the
\* flag --no-commit while git.autoCommit is false, with both commit
\* strategies and both templates.
DefaultConfigs ==
    {Config(c, {}, "undefined", FALSE, "per-iteration") : c \in LoopSettings}

SessionConfigs ==
    {Config(c, {}, "true", FALSE, "per-iteration") : c \in ShortRunSettings}

HookSets ==
    {LifecycleHooks, {"preIteration", "onComplete"}, {"postIteration", "onError"}}

GitSettings ==
    {[autoCommit |-> "false", gitAutoCommit |-> TRUE, commitStrategy |-> "per-iteration"],
     [autoCommit |-> "true", gitAutoCommit |-> FALSE, commitStrategy |-> "per-iteration"],
     [autoCommit |-> "undefined", gitAutoCommit |-> TRUE, commitStrategy |-> "on-stop"]}

ProcessConfigs ==
    UNION {{Config(c, h, g.autoCommit, g.gitAutoCommit, g.commitStrategy) :
               c \in TwoIterationSettings, h \in HookSets} : g \in GitSettings}

ReportConfigs ==
    {[Config(c, {}, CliCommit(FALSE), FALSE, strategy)
         EXCEPT !.commitMessageTemplate = template] :
        c \in TwoIterationSettings, strategy \in CommitStrategies,
        template \in Templates}

\* TerminationConfigs: loops of every length and strategy, with the
\* max-iterations stop condition enabled and disabled, the other stop
\* conditions enabled, every lifecycle hook and a commit per iteration
TerminationConfigs ==
    {Config(c, LifecycleHooks, CliCommit(FALSE), FALSE, "per-iteration") :
        c \in {l \in LoopSettings :
                  /\ l.maxRetries = MinRetries
                  /\ l.patternEnabled /\ l.pattern = <<"D", "E">>
                  /\ l.hookEnabled /\ l.hookCommand # NoCommand}}

Configs == DefaultConfigs \cup SessionConfigs

(* ---------------------------- state ----------------------------------- *)

VARIABLES
    config,        \* the validated configuration of this run
    pc,            \* position of runLoop
    iteration,     \* let iteration
    stopReason,    \* let stopReason
    lastOutput,    \* let lastOutput
    result,        \* let result: ExecutionResult
    retried,       \* let retried
    ledger,        \* content of progress.md, a sequence of sections
    ledgerExists,  \* whether progress.md exists
    priorLen,      \* number of sections progress.md had before this run
    sessionDir,    \* whether the session directory .ralph/<name> exists
    isResumed,     \* session.isResumed
    tempFile,      \* the combined-prompt temporary file
    attempts,      \* exit codes of the agent executions of this iteration
    executions,    \* number of agent executions started by this run
    agentFailed,   \* whether some agent execution exited nonzero or rejected
    stopHookRuns,  \* iterations in which the stop hook was executed
    stopHookChild, \* how the child process of this iteration's stop hook ended
    hookCall,      \* the last call made to the HookExecutor, with its environment
    pending,       \* how runLoop is about to end while in finally
    outcome,       \* how runLoop ended: its RunResult or the throw
    prior,         \* what was on disk for this session name before this run
    promptSource,  \* content of the user's prompt file
    promptCopy,    \* content of prompt.md in the session directory
    shouldAutoCommit, \* const shouldAutoCommit
    isGitRepo,     \* const isGitRepo
    commitFor,     \* the call of performCommit in progress
    inFlight,      \* the child processes spawned and not yet closed
    events,        \* spawns, closes and ledger appends of this iteration
    hookChild,     \* how the child of this iteration's last lifecycle hook ended
    agent,         \* the results adapter.execute can resolve with in this run
    totalTokens,   \* let totalTokens
    iterationTokens, \* const iterationTokens
    parsedCommitMessage, \* const parsedCommitMessage
    lastParsedCommitMessage, \* let lastParsedCommitMessage
    messageUsed,   \* const message of performCommit, the text given to commit
    discarded,     \* the outputs that a retry replaced in the iteration in progress
    gitChild       \* how the last git process ended whose result is still in use

vars == <<config, pc, iteration, stopReason, lastOutput, result, retried,
          ledger, ledgerExists, priorLen, sessionDir, isResumed, tempFile,
          attempts, executions, agentFailed, stopHookRuns, stopHookChild,
          hookCall, pending, outcome, prior, promptSource, promptCopy,
          shouldAutoCommit, isGitRepo, commitFor, inFlight, events,
          hookChild, agent, totalTokens, iterationTokens,
          parsedCommitMessage, lastParsedCommitMessage, messageUsed, discarded,
          gitChild>>

(* ------------------------- stop reasons ------------------------------- *)

Unknown == <<"unknown">>
ReachedMax(n) == <<"Reached max iterations", n>>
PatternMatched(p) == <<"Output pattern matched", p>>
StopHookSuccess(c) == <<"Stop hook returned success", c>>
ErrorOnIteration(n, x) == <<"Error on iteration", n, "exit code", x>>
ExecutionError == <<"Execution error", "rejected">>

(* ------------------- stop condition evaluator ------------------------- *)

\* new RegExp(pattern) throws a SyntaxError on an unbalanced "("
RegExpValid(pattern) == \A i \in 1..Len(pattern) : pattern[i] # "("

\* regex.test(text) for a pattern of ordinary characters: the pattern
\* occurs somewhere in the text
RegExpTest(pattern, text) ==
    \E i \in 0..(Len(text) - Len(pattern)) :
        SubSeq(text, i + 1, i + Len(pattern)) = pattern

\* JavaScript truthiness of a string: the empty string is falsy
Truthy(str) == str # << >>

StopResult(stop, why) == [threw |-> FALSE, shouldStop |-> stop, reason |-> why]
Threw == [threw |-> TRUE, shouldStop |-> FALSE, reason |-> Unknown]

\* mutation of checkStopConditions: the output pattern is evaluated before
\* the max-iterations condition
checkStopConditions_patternFirst(conditions, context) ==
    IF conditions.patternEnabled /\ Truthy(conditions.pattern)
       /\ RegExpValid(conditions.pattern)
       /\ RegExpTest(conditions.pattern, context.output)
    THEN StopResult(TRUE, PatternMatched(conditions.pattern))
    ELSE IF conditions.stopMaxIterations /\ context.iteration >= context.maxIterations
         THEN StopResult(TRUE, ReachedMax(context.maxIterations))
         ELSE IF conditions.patternEnabled /\ Truthy(conditions.pattern)
                 /\ ~RegExpValid(conditions.pattern)
              THEN Threw
              ELSE StopResult(FALSE, Unknown)

\* checkStopConditions(conditions, context); context is
\* [iteration, maxIterations, output]
checkStopConditions(conditions, context) ==
    IF conditions.stopMaxIterations /\ context.iteration >= context.maxIterations
    THEN StopResult(TRUE, ReachedMax(context.maxIterations))
    ELSE IF conditions.patternEnabled /\ Truthy(conditions.pattern)
         THEN IF ~RegExpValid(conditions.pattern)
              THEN Threw
              ELSE IF RegExpTest(conditions.pattern, context.output)
                   THEN StopResult(TRUE, PatternMatched(conditions.pattern))
                   ELSE StopResult(FALSE, Unknown)
         ELSE StopResult(FALSE, Unknown)

\* mutation of runStopHook: the error event resolves like a clean exit
runStopHook_errorStops(command, child) ==
    IF child.kind = "error" \/ (child.kind = "close" /\ child.code = 0)
    THEN StopResult(TRUE, StopHookSuccess(command))
    ELSE StopResult(FALSE, Unknown)

\* runStopHook(command, env), given how the child process ended: only the
\* close event with code 0 resolves to shouldStop; a null code, a nonzero
\* code and the error event resolve to { shouldStop: false }
runStopHook(command, child) ==
    IF child.kind = "close" /\ child.code = 0
    THEN StopResult(TRUE, StopHookSuccess(command))
    ELSE StopResult(FALSE, Unknown)

(* ----------------------------- hooks ---------------------------------- *)

NoCode == -1
NoHook == [hook |-> "none", RL_ITERATION |-> 0, RL_EXIT_CODE |-> NoCode,
           RL_STOP_REASON |-> Unknown, RL_TOTAL_ITERATIONS |-> NoCode]

runPreIteration(i) == [NoHook EXCEPT !.hook = "preIteration", !.RL_ITERATION = i]

\* mutation of runPostIteration: the hook is given the exit code of the
\* iteration's first attempt
runPostIteration_firstAttempt(i, exitCode) ==
    [NoHook EXCEPT !.hook = "postIteration", !.RL_ITERATION = i,
                   !.RL_EXIT_CODE = attempts[1]]

runPostIteration(i, exitCode) ==
    [NoHook EXCEPT !.hook = "postIteration", !.RL_ITERATION = i,
                   !.RL_EXIT_CODE = exitCode]

runOnError(i, exitCode) ==
    [NoHook EXCEPT !.hook = "onError", !.RL_ITERATION = i,
                   !.RL_EXIT_CODE = exitCode]

runOnComplete(totalIterations, reason) ==
    [NoHook EXCEPT !.hook = "onComplete", !.RL_ITERATION = totalIterations,
                   !.RL_STOP_REASON = reason,
                   !.RL_TOTAL_ITERATIONS = totalIterations]

(* ------------------------- output parsers ----------------------------- *)

\* a field of TokenUsage that is not set
Undefined == -1

\* interface TokenUsage: six optional numbers
TokenFields ==
    {"inputTokens", "outputTokens", "totalTokens", "cacheReadTokens",
     "cacheWriteTokens", "cost"}

\* the TokenUsage {}
NoUsage == [f \in TokenFields |-> Undefined]

\* what a TokenParser returns: a usage, or null
Parsed(usage) == [found |-> TRUE, usage |-> usage]
Null == [found |-> FALSE, usage |-> NoUsage]

\* output.match(/input_tokens["\s:]+(\d+)/i) and
\* output.match(/output_tokens["\s:]+(\d+)/i) with Number.parseInt of the
\* captured digits: the number of the usage line, if the output has one
inputJsonMatch(output) ==
    IF \E i \in 1..Len(output) : output[i] = UsageIn
    THEN ReportedIn ELSE Undefined

outputJsonMatch(output) ==
    IF \E i \in 1..Len(output) : output[i] = UsageOut
    THEN ReportedOut ELSE Undefined

\* output.match(/(?:Total\s+)?[Cc]ost:\s*\$?([\d.]+)/) with
\* Number.parseFloat of the captured digits
costMatch(output) ==
    IF \E i \in 1..Len(output) : output[i] = UsageCost
    THEN ReportedCost ELSE Undefined

\* parseClaudeCodeTokens, the token parser of the tool.  Of its patterns
\* only the JSON-style ones and the cost pattern match a line of the
\* outputs explored; the sum is set if (usage.inputTokens &&
\* usage.outputTokens).
parseClaudeCodeTokens(output) ==
    LET inputTokens == inputJsonMatch(output)
        outputTokens == outputJsonMatch(output)
        cost == costMatch(output)
        usage == [NoUsage EXCEPT
                     !.inputTokens = inputTokens,
                     !.outputTokens = outputTokens,
                     !.totalTokens =
                         IF inputTokens \notin {Undefined, 0}
                            /\ outputTokens \notin {Undefined, 0}
                         THEN inputTokens + outputTokens ELSE Undefined,
                     !.cost = cost]
    IN IF inputTokens # Undefined \/ outputTokens # Undefined
          \/ cost # Undefined
       THEN Parsed(usage) ELSE Null

\* total.x || 0
OrZero(x) == IF x = Undefined \/ x = 0 THEN 0 ELSE x

\* mutation of accumulateTokens: a field that the iteration does not
\* report counts as 0
accumulateTokens_coerced(total, usage) ==
    [f \in TokenFields |-> OrZero(total[f]) + OrZero(usage[f])]

\* mutation of accumulateTokens: a field that the iteration reports
\* replaces the total's
accumulateTokens_lastWins(total, usage) ==
    [f \in TokenFields |->
        IF usage[f] # Undefined THEN usage[f] ELSE total[f]]

\* accumulateTokens(total, iteration); usage is the iteration's TokenUsage
accumulateTokens(total, usage) ==
    [inputTokens |->
         IF usage.inputTokens # Undefined
         THEN OrZero(total.inputTokens) + usage.inputTokens
         ELSE total.inputTokens,
     outputTokens |->
         IF usage.outputTokens # Undefined
         THEN OrZero(total.outputTokens) + usage.outputTokens
         ELSE total.outputTokens,
     totalTokens |->
         IF usage.totalTokens # Undefined
         THEN OrZero(total.totalTokens) + usage.totalTokens
         ELSE total.totalTokens,
     cacheReadTokens |->
         IF usage.cacheReadTokens # Undefined
         THEN OrZero(total.cacheReadTokens) + usage.cacheReadTokens
         ELSE total.cacheReadTokens,
     cacheWriteTokens |->
         IF usage.cacheWriteTokens # Undefined
         THEN OrZero(total.cacheWriteTokens) + usage.cacheWriteTokens
         ELSE total.cacheWriteTokens,
     cost |->
         IF usage.cost # Undefined
         THEN OrZero(total.cost) + usage.cost
         ELSE total.cost]

\* The usages and totals explored for accumulateTokens: one field has one
\* value and the five others share another, each undefined or a number,
\* up to MaxReported in a usage and up to MaxTokens in a total.
MaxReported == 1
MaxTokens == 2
Shaped(amounts) ==
    {[g \in TokenFields |-> IF g = f THEN v ELSE w] :
        f \in TokenFields, v \in amounts, w \in amounts}
Usages == Shaped({Undefined} \cup 0..MaxReported)
Totals == Shaped({Undefined} \cup 0..MaxTokens)

\* a commit message is a text in pieces; undefined is the empty text
NoMessage == << >>

\* parseCommitMessage(output): the trimmed text after the first
\* COMMIT_MSG: marker, undefined without a marker
parseCommitMessage(output) ==
    IF \E i \in 1..Len(output) : output[i] = Marker
    THEN CommitText ELSE NoMessage

\* options.name, the name of the session
SessionName == "feature"

\* formatCommitMessage(template, { iteration, sessionName }): every
\* placeholder is replaced, {tool} by "unknown" when no tool is given
formatCommitMessage(template, i, sessionName) ==
    [k \in 1..Len(template) |->
        CASE template[k] = "{iteration}" -> ToString(i)
          [] template[k] = "{sessionName}" -> sessionName
          [] template[k] = "{tool}" -> "unknown"
          [] OTHER -> template[k]]

\* mutation of fallbackMessage: the iteration number is left out
fallbackMessage_noIteration(i, sessionName) ==
    <<"chore(rl): iteration ", " - ", sessionName>>

\* performCommit: `chore(rl): iteration ${iteration} - ${sessionName}`
fallbackMessage(i, sessionName) ==
    <<"chore(rl): iteration ", ToString(i), " - ", sessionName>>

(* ----------------------------- ledger --------------------------------- *)

\* a section of progress.md; tokens is the usage printed in it, Null when
\* the section has no line of tokens
Section(type, n, status, exitCode, reason) ==
    [type |-> type, n |-> n, status |-> status, exitCode |-> exitCode,
     reason |-> reason, tokens |-> Null]

HeaderSection(maxIterations) == Section("header", maxIterations, "", NoCode, Unknown)
ResumedSection(maxIterations) == Section("resumed", maxIterations, "", NoCode, Unknown)
IterationSection(i, status, exitCode) == Section("iteration", i, status, exitCode, Unknown)
SummarySection(total, reason) == Section("summary", total, "", NoCode, reason)

\* mutation of writeHeader: the file is always written anew
writeHeader_alwaysWrites(file, exists, resumed, maxIterations) ==
    <<HeaderSection(maxIterations)>>

\* ProgressWriter.writeHeader: append a resume marker to an existing file
\* of a resumed session, otherwise write the file anew
writeHeader(file, exists, resumed, maxIterations) ==
    IF resumed /\ exists
    THEN Append(file, ResumedSection(maxIterations))
    ELSE <<HeaderSection(maxIterations)>>

\* mutation of Status: the retried flag is ignored
Status_exitCodeOnly(wasRetried, exitCode) ==
    IF exitCode = 0 THEN "completed" ELSE "failed"

\* mutation of Status: a retry that succeeded is recorded as completed
Status_retryOutcome(wasRetried, exitCode) ==
    IF exitCode = 0 THEN "completed"
    ELSE IF wasRetried THEN "retried" ELSE "failed"

\* status: retried ? "retried" : result.exitCode === 0 ? "completed" : "failed"
Status(wasRetried, exitCode) ==
    IF wasRetried THEN "retried"
    ELSE IF exitCode = 0 THEN "completed" ELSE "failed"

\* mutation of appendIteration: records are numbered by agent execution
appendIteration_countsExecutions(file, i, wasRetried, exitCode, tokens) ==
    Append(file,
           [IterationSection(executions, Status(wasRetried, exitCode), exitCode)
               EXCEPT !.tokens = tokens])

\* ProgressWriter.appendIteration({ iteration, status, exitCode, tokens:
\* iterationTokens || undefined, ... }): the line of tokens is written
\* if (progress.tokens)
appendIteration(file, i, wasRetried, exitCode, tokens) ==
    Append(file,
           [IterationSection(i, Status(wasRetried, exitCode), exitCode)
               EXCEPT !.tokens = tokens])

\* const hasTotalTokens = totalTokens.inputTokens !== undefined ||
\* totalTokens.outputTokens !== undefined ||
\* totalTokens.totalTokens !== undefined
hasTotalTokens(total) ==
    \/ total.inputTokens # Undefined
    \/ total.outputTokens # Undefined
    \/ total.totalTokens # Undefined

\* progressWriter.writeSummary({ totalIterations, stopReason,
\* totalTokens: hasTotalTokens ? totalTokens : undefined }): the line of
\* total tokens is written if (summary.totalTokens)
writeSummary(file, total, reason, tokens) ==
    Append(file,
           [SummarySection(total, reason)
               EXCEPT !.tokens = IF hasTotalTokens(tokens)
                                 THEN Parsed(tokens) ELSE Null])

(* --------------------------- initial state ---------------------------- *)

NoError == "none"
ToolNotInstalled == "Tool is not installed or not in PATH"
PromptNotFound == "Prompt file not found"
CommandNotBuilt == "buildCommand threw"
InvalidPattern == "Invalid regular expression"

Running == [kind |-> "running", totalIterations |-> 0, stopReason |-> Unknown,
            success |-> FALSE, error |-> NoError]
Thrown == [Running EXCEPT !.kind = "thrown"]
ThrownWith(message) == [Thrown EXCEPT !.error = message]

\* mutation of Returned: success tells whether every execution of the
\* agent succeeded
Returned_agentOutcome(total, reason) ==
    [kind |-> "returned", totalIterations |-> total, stopReason |-> reason,
     success |-> ~agentFailed, error |-> NoError]

\* return { totalIterations: iteration, stopReason, session, success: true }
Returned(total, reason) ==
    [kind |-> "returned", totalIterations |-> total, stopReason |-> reason,
     success |-> TRUE, error |-> NoError]

\* contents of a prompt file: the text it had when the session was
\* created, and an edited text
PromptVersions == {"prompt v1", "prompt v2"}
NoFile == "<no file>"

\* what an earlier run on the same session name can have left behind: no
\* session directory, or a directory with a finished ledger
NoSession ==
    [dir |-> FALSE, exists |-> FALSE, file |-> << >>, promptCopy |-> NoFile]

PriorSessions ==
    {NoSession,
     [dir |-> TRUE, exists |-> TRUE,
      file |-> <<HeaderSection(1), IterationSection(1, "completed", 0),
                 SummarySection(1, ReachedMax(1))>>,
      promptCopy |-> "prompt v1"]}

\* a session directory whose progress.md is missing
LedgerlessSession ==
    [dir |-> TRUE, exists |-> FALSE, file |-> << >>, promptCopy |-> "prompt v1"]

\* The runs explored by Spec: the configurations of Configs on the
\* sessions of PriorSessions, with the prompt file as it was when the
\* session was created.
Runs ==
    [config : Configs, prior : PriorSessions, promptSource : {"prompt v1"},
     agent : {ExecutionResults}]

\* The runs explored by SpecSession: the ledgerless session and the edited
\* prompt file as well.
SessionRuns ==
    [config : SessionConfigs,
     prior : PriorSessions \cup {LedgerlessSession},
     promptSource : PromptVersions,
     agent : {ExecutionResults}]

\* The runs explored by SpecProcesses: new sessions with lifecycle hooks
\* and git settings, and an agent that prints nothing.
ProcessRuns ==
    [config : ProcessConfigs, prior : {NoSession}, promptSource : {"prompt v1"},
     agent : {SilentResults}]

\* The runs explored by SpecReports: new sessions with an agent that
\* reports its token usage and proposes commit messages.
ReportRuns ==
    [config : ReportConfigs, prior : {NoSession}, promptSource : {"prompt v1"},
     agent : {ReportingResults}]

\* the state in which runLoop is called
InitOf(runs) ==
    /\ \E run \in runs :
         /\ config = run.config
         /\ prior = run.prior
         /\ promptSource = run.promptSource
         /\ agent = run.agent
    /\ sessionDir = prior.dir
    /\ ledgerExists = prior.exists
    /\ ledger = prior.file
    /\ priorLen = Len(prior.file)
    /\ promptCopy = prior.promptCopy
    /\ pc = "start"
    /\ iteration = 0
    /\ stopReason = Unknown
    /\ lastOutput = << >>
    /\ result = NoResult
    /\ retried = FALSE
    /\ isResumed = FALSE
    /\ tempFile = "none"
    /\ attempts = << >>
    /\ executions = 0
    /\ agentFailed = FALSE
    /\ stopHookRuns = {}
    /\ stopHookChild = NoChild
    /\ hookCall = NoHook
    /\ pending = Running
    /\ outcome = Running
    /\ shouldAutoCommit = FALSE
    /\ isGitRepo = FALSE
    /\ commitFor = "none"
    /\ inFlight = {}
    /\ events = << >>
    /\ hookChild = NoChild
    /\ totalTokens = NoUsage
    /\ iterationTokens = Null
    /\ parsedCommitMessage = NoMessage
    /\ lastParsedCommitMessage = NoMessage
    /\ messageUsed = NoMessage
    /\ discarded = << >>
    /\ gitChild = "none"

Init == InitOf(Runs)

\* The runs explored by SpecTermination
TerminationRuns ==
    [config : TerminationConfigs, prior : {NoSession},
     promptSource : {"prompt v1"}, agent : {TerseResults}]

InitTermination == InitOf(TerminationRuns)

InitSession == InitOf(SessionRuns)

InitProcesses == InitOf(ProcessRuns)

InitReports == InitOf(ReportRuns)

(* ------------------------- child processes ---------------------------- *)

Started(name) == <<name, "start">>
Ended(name) == <<name, "end">>

\* how the child process of a lifecycle hook can end: exit code 0, a
\* nonzero exit code, or a failed spawn
HookOutcomes ==
    {[kind |-> "close", code |-> 0], [kind |-> "close", code |-> MaxExit],
     [kind |-> "error", code |-> -1]}

\* how the child process of git status can end for getGitStatus: with
\* changes listed, with none listed, or with a nonzero exit code or a
\* failed spawn; and how any other git process can end for its caller
StatusOutcomes == {"changes", "clean", "failed"}
GitOutcomes == {"ok", "failed"}

\* HookExecutor.runX: if (!this.hooks.X) return null; otherwise executeHook
\* spawns the command.  The processes, the events and the ways the child
\* can end for a call of the lifecycle hook `name`.
HookProcesses(name) == IF name \in config.hooks THEN {name} ELSE {}
HookStarts(name) == IF name \in config.hooks THEN <<Started(name)>> ELSE << >>
HookEnds(name) == IF name \in config.hooks THEN <<Ended(name)>> ELSE << >>
HookChildren(name) == IF name \in config.hooks THEN HookOutcomes ELSE {hookChild}

(* ------------------------------ runLoop ------------------------------- *)

\* autoCommit ?? config.git.autoCommit
AutoCommit(autoCommit, gitAutoCommit) ==
    IF autoCommit = "undefined" THEN gitAutoCommit ELSE autoCommit = "true"

\* mutation of getOrCreateSession: the prompt is copied on resume as well
getOrCreateSession_recopy(dirExists, copy, source) ==
    [isResumed |-> dirExists, dir |-> TRUE, promptCopy |-> source]

\* SessionManager.getOrCreateSession once the prompt file is known to
\* exist: an existing directory is resumed as it is, otherwise the
\* directory is made and the prompt copied into it
getOrCreateSession(dirExists, copy, source) ==
    IF dirExists
    THEN [isResumed |-> TRUE, dir |-> TRUE, promptCopy |-> copy]
    ELSE [isResumed |-> FALSE, dir |-> TRUE, promptCopy |-> source]

\* mutation of Start: the session is set up before the availability check
Start_sessionFirst ==
    /\ pc = "start"
    /\ shouldAutoCommit' = AutoCommit(config.autoCommit, config.gitAutoCommit)
    /\ \E repo \in (IF shouldAutoCommit' THEN BOOLEAN ELSE {FALSE}) :
         isGitRepo' = repo
    /\ \E isAvailable \in BOOLEAN, promptExists \in BOOLEAN :
         IF ~promptExists
         THEN /\ pc' = "done"
              /\ outcome' = ThrownWith(PromptNotFound)
              /\ UNCHANGED <<sessionDir, isResumed, promptCopy, ledger,
                             ledgerExists, tempFile>>
         ELSE LET session == getOrCreateSession(sessionDir, promptCopy, promptSource) IN
              /\ isResumed' = session.isResumed
              /\ sessionDir' = session.dir
              /\ promptCopy' = session.promptCopy
              /\ ledger' = writeHeader(ledger, ledgerExists, session.isResumed,
                                       config.maxIterations)
              /\ ledgerExists' = TRUE
              /\ IF ~isAvailable
                 THEN /\ pc' = "done"
                      /\ outcome' = ThrownWith(ToolNotInstalled)
                      /\ UNCHANGED tempFile
                 ELSE /\ tempFile' = "exists"
                      /\ pc' = "build"
                      /\ UNCHANGED outcome
    /\ UNCHANGED <<config, iteration, stopReason, lastOutput, result, retried,
                   priorLen, attempts, executions, agentFailed, stopHookRuns,
                   stopHookChild, hookCall, pending, prior, promptSource,
                   commitFor, inFlight, events, hookChild,
                   agent, totalTokens, iterationTokens, parsedCommitMessage,
                   lastParsedCommitMessage, messageUsed, discarded, gitChild>>

\* runLoop up to the creation of the combined prompt: isGitRepository, the
\* availability check, getOrCreateSession, writeHeader and
\* createCombinedPrompt
Start ==
    /\ pc = "start"
    /\ shouldAutoCommit' = AutoCommit(config.autoCommit, config.gitAutoCommit)
    /\ \E repo \in (IF shouldAutoCommit' THEN BOOLEAN ELSE {FALSE}) :
         isGitRepo' = repo
    /\ \E isAvailable \in BOOLEAN, promptExists \in BOOLEAN :
         IF ~isAvailable
         THEN /\ pc' = "done"
              /\ outcome' = ThrownWith(ToolNotInstalled)
              /\ UNCHANGED <<sessionDir, isResumed, promptCopy, ledger,
                             ledgerExists, tempFile>>
         ELSE IF ~promptExists
         THEN /\ pc' = "done"
              /\ outcome' = ThrownWith(PromptNotFound)
              /\ UNCHANGED <<sessionDir, isResumed, promptCopy, ledger,
                             ledgerExists, tempFile>>
         ELSE LET session == getOrCreateSession(sessionDir, promptCopy, promptSource) IN
              /\ isResumed' = session.isResumed
              /\ sessionDir' = session.dir
              /\ promptCopy' = session.promptCopy
              /\ ledger' = writeHeader(ledger, ledgerExists, session.isResumed,
                                       config.maxIterations)
              /\ ledgerExists' = TRUE
              /\ tempFile' = "exists"
              /\ pc' = "build"
              /\ UNCHANGED outcome
    /\ UNCHANGED <<config, iteration, stopReason, lastOutput, result, retried,
                   priorLen, attempts, executions, agentFailed, stopHookRuns,
                   stopHookChild, hookCall, pending, prior, promptSource,
                   commitFor, inFlight, events, hookChild,
                   agent, totalTokens, iterationTokens, parsedCommitMessage,
                   lastParsedCommitMessage, messageUsed, discarded, gitChild>>

\* adapter.buildCommand inside the try block; a throw leaves through finally
BuildCommand ==
    /\ pc = "build"
    /\ \E built \in BOOLEAN :
         IF built
         THEN pc' = "loop" /\ UNCHANGED pending
         ELSE pc' = "finally" /\ pending' = ThrownWith(CommandNotBuilt)
    /\ UNCHANGED <<config, iteration, stopReason, lastOutput, result, retried,
                   ledger, ledgerExists, priorLen, sessionDir, isResumed,
                   tempFile, attempts, executions, agentFailed, stopHookRuns,
                   stopHookChild, hookCall, outcome, prior, promptSource,
                   promptCopy, shouldAutoCommit, isGitRepo, commitFor,
                   inFlight, events, hookChild,
                   agent, totalTokens, iterationTokens, parsedCommitMessage,
                   lastParsedCommitMessage, messageUsed, discarded, gitChild>>

\* mutation of LoopHead: the pre-iteration hook is not awaited
LoopHead_hookNotAwaited ==
    /\ pc = "loop"
    /\ IF iteration < config.maxIterations
       THEN /\ iteration' = iteration + 1
            /\ hookCall' = runPreIteration(iteration + 1)
            /\ retried' = FALSE
            /\ attempts' = << >>
            /\ stopHookChild' = NoChild
            /\ hookChild' = NoChild
            /\ iterationTokens' = Null
            /\ parsedCommitMessage' = NoMessage
            /\ inFlight' = HookProcesses("preIteration") \cup {"agent"}
            /\ events' = HookStarts("preIteration") \o <<Started("agent")>>
            /\ pc' = "execute"
       ELSE /\ pc' = "terminate"
            /\ UNCHANGED <<iteration, hookCall, retried, attempts, stopHookChild,
                           hookChild, inFlight, events, iterationTokens,
                           parsedCommitMessage>>
    /\ UNCHANGED <<config, stopReason, lastOutput, result, ledger,
                   ledgerExists, priorLen, sessionDir, isResumed, tempFile,
                   executions, agentFailed, stopHookRuns, pending, outcome,
                   prior, promptSource, promptCopy, shouldAutoCommit,
                   isGitRepo, commitFor,
                   agent, totalTokens, lastParsedCommitMessage, messageUsed,
                   discarded, gitChild>>

\* mutation of LoopHead: the loop condition admits one more iteration
LoopHead_offByOne ==
    /\ pc = "loop"
    /\ IF iteration <= config.maxIterations
       THEN /\ iteration' = iteration + 1
            /\ hookCall' = runPreIteration(iteration + 1)
            /\ retried' = FALSE
            /\ attempts' = << >>
            /\ stopHookChild' = NoChild
            /\ hookChild' = NoChild
            /\ iterationTokens' = Null
            /\ parsedCommitMessage' = NoMessage
            /\ inFlight' = HookProcesses("preIteration")
            /\ events' = HookStarts("preIteration")
            /\ pc' = "preHook"
       ELSE /\ pc' = "terminate"
            /\ UNCHANGED <<iteration, hookCall, retried, attempts, stopHookChild,
                           hookChild, inFlight, events, iterationTokens,
                           parsedCommitMessage>>
    /\ UNCHANGED <<config, stopReason, lastOutput, result, ledger,
                   ledgerExists, priorLen, sessionDir, isResumed, tempFile,
                   executions, agentFailed, stopHookRuns, pending, outcome,
                   prior, promptSource, promptCopy, shouldAutoCommit,
                   isGitRepo, commitFor,
                   agent, totalTokens, lastParsedCommitMessage, messageUsed,
                   discarded, gitChild>>

\* while (iteration < config.maxIterations) { iteration++; and the call of
\* hookExecutor.runPreIteration(iteration)
LoopHead ==
    /\ pc = "loop"
    /\ IF iteration < config.maxIterations
       THEN /\ iteration' = iteration + 1
            /\ hookCall' = runPreIteration(iteration + 1)
            /\ retried' = FALSE
            /\ attempts' = << >>
            /\ stopHookChild' = NoChild
            /\ hookChild' = NoChild
            /\ iterationTokens' = Null
            /\ parsedCommitMessage' = NoMessage
            /\ inFlight' = HookProcesses("preIteration")
            /\ events' = HookStarts("preIteration")
            /\ pc' = "preHook"
       ELSE /\ pc' = "terminate"
            /\ UNCHANGED <<iteration, hookCall, retried, attempts, stopHookChild,
                           hookChild, inFlight, events, iterationTokens,
                           parsedCommitMessage>>
    /\ UNCHANGED <<config, stopReason, lastOutput, result, ledger,
                   ledgerExists, priorLen, sessionDir, isResumed, tempFile,
                   executions, agentFailed, stopHookRuns, pending, outcome,
                   prior, promptSource, promptCopy, shouldAutoCommit,
                   isGitRepo, commitFor,
                   agent, totalTokens, lastParsedCommitMessage, messageUsed,
                   discarded, gitChild>>

\* mutation of PreHook: a failed pre-iteration hook ends the loop
PreHook_failureStops ==
    /\ pc = "preHook"
    /\ \E child \in HookChildren("preIteration") :
         /\ hookChild' = child
         /\ IF "preIteration" \in config.hooks /\ ~(child.kind = "close" /\ child.code = 0)
            THEN /\ inFlight' = inFlight \ {"preIteration"}
                 /\ events' = events \o HookEnds("preIteration")
                 /\ pc' = "terminate"
            ELSE /\ inFlight' = (inFlight \ {"preIteration"}) \cup {"agent"}
                 /\ events' = events \o HookEnds("preIteration") \o <<Started("agent")>>
                 /\ pc' = "execute"
    /\ UNCHANGED <<config, iteration, stopReason, lastOutput, result, retried,
                   ledger, ledgerExists, priorLen, sessionDir, isResumed,
                   tempFile, attempts, executions, agentFailed, stopHookRuns,
                   stopHookChild, hookCall, pending, outcome, prior,
                   promptSource, promptCopy, shouldAutoCommit, isGitRepo,
                   commitFor,
                   agent, totalTokens, iterationTokens, parsedCommitMessage,
                   lastParsedCommitMessage, messageUsed, discarded, gitChild>>

\* await hookExecutor.runPreIteration(iteration) resolves, whatever the
\* hook did; then adapter.execute(command) spawns the agent
PreHook ==
    /\ pc = "preHook"
    /\ \E child \in HookChildren("preIteration") : hookChild' = child
    /\ inFlight' = (inFlight \ {"preIteration"}) \cup {"agent"}
    /\ events' = events \o HookEnds("preIteration") \o <<Started("agent")>>
    /\ pc' = "execute"
    /\ UNCHANGED <<config, iteration, stopReason, lastOutput, result, retried,
                   ledger, ledgerExists, priorLen, sessionDir, isResumed,
                   tempFile, attempts, executions, agentFailed, stopHookRuns,
                   stopHookChild, hookCall, pending, outcome, prior,
                   promptSource, promptCopy, shouldAutoCommit, isGitRepo,
                   commitFor,
                   agent, totalTokens, iterationTokens, parsedCommitMessage,
                   lastParsedCommitMessage, messageUsed, discarded, gitChild>>

\* mutation of Executed: only stdout is kept as the last output
Executed_stdoutOnly(r, next) ==
    /\ attempts' = Append(attempts, r.exitCode)
    /\ executions' = executions + 1
    /\ agentFailed' = (agentFailed \/ r.exitCode # 0)
    /\ IF r = Rejected
       THEN /\ stopReason' = ExecutionError
            /\ pc' = "terminate"
            /\ UNCHANGED <<result, lastOutput>>
       ELSE /\ result' = r
            /\ lastOutput' = r.stdout
            /\ pc' = next
            /\ UNCHANGED stopReason

\* mutation of Executed: the catch block does not leave the loop
Executed_noBreak(r, next) ==
    /\ attempts' = Append(attempts, r.exitCode)
    /\ executions' = executions + 1
    /\ agentFailed' = (agentFailed \/ r.exitCode # 0)
    /\ IF r = Rejected
       THEN /\ stopReason' = ExecutionError
            /\ pc' = "loop"
            /\ UNCHANGED <<result, lastOutput>>
       ELSE /\ result' = r
            /\ lastOutput' = r.stdout \o r.stderr
            /\ pc' = next
            /\ UNCHANGED stopReason

\* result = await adapter.execute(command); lastOutput = stdout + stderr;
\* a rejection is caught: stopReason = "Execution error: ..."; break
Executed(r, next) ==
    /\ attempts' = Append(attempts, r.exitCode)
    /\ executions' = executions + 1
    /\ agentFailed' = (agentFailed \/ r.exitCode # 0)
    /\ IF r = Rejected
       THEN /\ stopReason' = ExecutionError
            /\ pc' = "terminate"
            /\ UNCHANGED <<result, lastOutput>>
       ELSE /\ result' = r
            /\ lastOutput' = r.stdout \o r.stderr
            /\ pc' = next
            /\ UNCHANGED stopReason

Execute ==
    /\ pc = "execute"
    /\ \E r \in agent \cup {Rejected} : Executed(r, "retryDecision")
    /\ inFlight' = inFlight \ {"agent"}
    /\ events' = events \o <<Ended("agent")>>
    /\ UNCHANGED <<config, iteration, retried, ledger, ledgerExists, priorLen,
                   sessionDir, isResumed, tempFile, stopHookRuns,
                   stopHookChild, hookCall, pending, outcome, prior,
                   promptSource, promptCopy, shouldAutoCommit, isGitRepo,
                   commitFor, hookChild,
                   agent, totalTokens, iterationTokens, parsedCommitMessage,
                   lastParsedCommitMessage, messageUsed, discarded, gitChild>>

\* mutation of shouldRetry: every strategy retries
shouldRetry_anyStrategy(errorHandling, exitCode, wasRetried) ==
    exitCode # 0 /\ ~wasRetried

\* if (result.exitCode !== 0) { if (strategy === "retry-once" && !retried)
\* { runOnError; retried = true; ...
shouldRetry(errorHandling, exitCode, wasRetried) ==
    exitCode # 0 /\ errorHandling.strategy = "retry-once" /\ ~wasRetried

\* the retry test and the call of hookExecutor.runOnError of the
\* retry-once branch
RetryDecision ==
    /\ pc = "retryDecision"
    /\ IF shouldRetry(config, result.exitCode, retried)
       THEN /\ hookCall' = runOnError(iteration, result.exitCode)
            /\ inFlight' = inFlight \cup HookProcesses("onError")
            /\ events' = events \o HookStarts("onError")
            /\ pc' = "retryHook"
       ELSE /\ pc' = "errorDecision"
            /\ UNCHANGED <<hookCall, inFlight, events>>
    /\ UNCHANGED <<config, iteration, stopReason, lastOutput, result, retried,
                   ledger, ledgerExists, priorLen, sessionDir, isResumed,
                   tempFile, attempts, executions, agentFailed, stopHookRuns,
                   stopHookChild, pending, outcome, prior, promptSource,
                   promptCopy, shouldAutoCommit, isGitRepo, commitFor,
                   hookChild,
                   agent, totalTokens, iterationTokens, parsedCommitMessage,
                   lastParsedCommitMessage, messageUsed, discarded, gitChild>>

\* await hookExecutor.runOnError(...) resolves; retried = true; the second
\* adapter.execute(command) spawns the agent
RetryHook ==
    /\ pc = "retryHook"
    /\ \E child \in HookChildren("onError") : hookChild' = child
    /\ retried' = TRUE
    /\ inFlight' = (inFlight \ {"onError"}) \cup {"agent"}
    /\ events' = events \o HookEnds("onError") \o <<Started("agent")>>
    /\ pc' = "retryExecute"
    /\ UNCHANGED <<config, iteration, stopReason, lastOutput, result, ledger,
                   ledgerExists, priorLen, sessionDir, isResumed, tempFile,
                   attempts, executions, agentFailed, stopHookRuns,
                   stopHookChild, hookCall, pending, outcome, prior,
                   promptSource, promptCopy, shouldAutoCommit, isGitRepo,
                   commitFor,
                   agent, totalTokens, iterationTokens, parsedCommitMessage,
                   lastParsedCommitMessage, messageUsed, discarded, gitChild>>

\* the second adapter.execute(command) of the retry-once branch
RetryExecute ==
    /\ pc = "retryExecute"
    /\ \E r \in agent \cup {Rejected} : Executed(r, "errorDecision")
    /\ discarded' = IF pc' = "errorDecision"
                    THEN Append(discarded, lastOutput) ELSE discarded
    /\ inFlight' = inFlight \ {"agent"}
    /\ events' = events \o <<Ended("agent")>>
    /\ UNCHANGED <<config, iteration, retried, ledger, ledgerExists, priorLen,
                   sessionDir, isResumed, tempFile, stopHookRuns,
                   stopHookChild, hookCall, pending, outcome, prior,
                   promptSource, promptCopy, shouldAutoCommit, isGitRepo,
                   commitFor, hookChild,
                   agent, totalTokens, iterationTokens, parsedCommitMessage,
                   lastParsedCommitMessage, messageUsed, gitChild>>

\* mutation of shouldStopOnError: the strategy test never succeeds
shouldStopOnError_never(errorHandling, exitCode) ==
    exitCode # 0 /\ errorHandling.strategy = "halt"

\* mutation of shouldStopOnError: a failed retry stops the loop as well
shouldStopOnError_afterRetry(errorHandling, exitCode) ==
    exitCode # 0 /\ errorHandling.strategy \in {"stop", "retry-once"}

\* mutation of shouldStopOnError: every strategy but retry-once stops
shouldStopOnError_continueStops(errorHandling, exitCode) ==
    exitCode # 0 /\ errorHandling.strategy # "retry-once"

\* if (result.exitCode !== 0) { if (strategy === "stop") { runOnError;
\* stopReason = ...; break } /* otherwise log and continue */ }
shouldStopOnError(errorHandling, exitCode) ==
    exitCode # 0 /\ errorHandling.strategy = "stop"

\* mutation of commitsAt: the commit strategy is not looked at
commitsAt_anyStrategy(strategy) == shouldAutoCommit /\ isGitRepo

\* shouldAutoCommit && isGitRepo && commitStrategy === strategy
commitsAt(strategy) ==
    shouldAutoCommit /\ isGitRepo /\ config.commitStrategy = strategy

\* mutation of ParseOutput: the parsers read every output of the
\* iteration, the replaced ones as well
ParseOutput_everyAttempt ==
    LET output == IF discarded = << >> THEN lastOutput
                  ELSE discarded[1] \o lastOutput IN
    /\ iterationTokens' = parseClaudeCodeTokens(output)
    /\ totalTokens' = IF iterationTokens'.found
                      THEN accumulateTokens(totalTokens, iterationTokens'.usage)
                      ELSE totalTokens
    /\ parsedCommitMessage' = parseCommitMessage(output)
    /\ lastParsedCommitMessage' = parsedCommitMessage'

\* const iterationTokens = parseTokens(lastOutput); if (iterationTokens)
\* totalTokens = accumulateTokens(totalTokens, iterationTokens);
\* const parsedCommitMessage = parseCommitMessage(lastOutput);
\* lastParsedCommitMessage = parsedCommitMessage
ParseOutput ==
    /\ iterationTokens' = parseClaudeCodeTokens(lastOutput)
    /\ totalTokens' = IF iterationTokens'.found
                      THEN accumulateTokens(totalTokens, iterationTokens'.usage)
                      ELSE totalTokens
    /\ parsedCommitMessage' = parseCommitMessage(lastOutput)
    /\ lastParsedCommitMessage' = parsedCommitMessage'

\* mutation of ErrorDecision: the output is parsed before the stop test,
\* in the iteration that ends the loop as well
ErrorDecision_parseFirst ==
    /\ pc = "errorDecision"
    /\ IF shouldStopOnError(config, result.exitCode)
       THEN /\ hookCall' = runOnError(iteration, result.exitCode)
            /\ inFlight' = inFlight \cup HookProcesses("onError")
            /\ events' = events \o HookStarts("onError")
            /\ pc' = "errorHook"
            /\ ParseOutput
            /\ UNCHANGED commitFor
       ELSE IF commitsAt("per-iteration")
       THEN /\ ParseOutput
            /\ commitFor' = "iteration"
            /\ inFlight' = inFlight \cup {"gitStatus"}
            /\ events' = events \o <<Started("gitStatus")>>
            /\ pc' = "gitStatus"
            /\ UNCHANGED hookCall
       ELSE /\ ParseOutput
            /\ inFlight' = inFlight \cup {"gitDiffNames"}
            /\ events' = events \o <<Started("gitDiffNames")>>
            /\ pc' = "filesChanged"
            /\ UNCHANGED <<hookCall, commitFor>>
    /\ UNCHANGED <<config, iteration, stopReason, lastOutput, result, retried,
                   ledger, ledgerExists, priorLen, sessionDir, isResumed,
                   tempFile, attempts, executions, agentFailed, stopHookRuns,
                   stopHookChild, pending, outcome, prior, promptSource,
                   promptCopy, shouldAutoCommit, isGitRepo, hookChild,
                   agent, messageUsed, discarded, gitChild>>

\* the stop test with its call of hookExecutor.runOnError; otherwise the
\* output is parsed and the iteration goes on to the per-iteration commit
\* or to the first query of the git diff
ErrorDecision ==
    /\ pc = "errorDecision"
    /\ IF shouldStopOnError(config, result.exitCode)
       THEN /\ hookCall' = runOnError(iteration, result.exitCode)
            /\ inFlight' = inFlight \cup HookProcesses("onError")
            /\ events' = events \o HookStarts("onError")
            /\ pc' = "errorHook"
            /\ UNCHANGED <<commitFor, totalTokens, iterationTokens,
                           parsedCommitMessage, lastParsedCommitMessage>>
       ELSE IF commitsAt("per-iteration")
       THEN /\ ParseOutput
            /\ commitFor' = "iteration"
            /\ inFlight' = inFlight \cup {"gitStatus"}
            /\ events' = events \o <<Started("gitStatus")>>
            /\ pc' = "gitStatus"
            /\ UNCHANGED hookCall
       ELSE /\ ParseOutput
            /\ inFlight' = inFlight \cup {"gitDiffNames"}
            /\ events' = events \o <<Started("gitDiffNames")>>
            /\ pc' = "filesChanged"
            /\ UNCHANGED <<hookCall, commitFor>>
    /\ UNCHANGED <<config, iteration, stopReason, lastOutput, result, retried,
                   ledger, ledgerExists, priorLen, sessionDir, isResumed,
                   tempFile, attempts, executions, agentFailed, stopHookRuns,
                   stopHookChild, pending, outcome, prior, promptSource,
                   promptCopy, shouldAutoCommit, isGitRepo, hookChild,
                   agent, messageUsed, discarded, gitChild>>

\* await hookExecutor.runOnError(...) resolves under strategy stop;
\* stopReason = `Error on iteration ...`; break
ErrorHook ==
    /\ pc = "errorHook"
    /\ \E child \in HookChildren("onError") : hookChild' = child
    /\ inFlight' = inFlight \ {"onError"}
    /\ events' = events \o HookEnds("onError")
    /\ stopReason' = ErrorOnIteration(iteration, result.exitCode)
    /\ pc' = "terminate"
    /\ UNCHANGED <<config, iteration, lastOutput, result, retried, ledger,
                   ledgerExists, priorLen, sessionDir, isResumed, tempFile,
                   attempts, executions, agentFailed, stopHookRuns,
                   stopHookChild, hookCall, pending, outcome, prior,
                   promptSource, promptCopy, shouldAutoCommit, isGitRepo,
                   commitFor,
                   agent, totalTokens, iterationTokens, parsedCommitMessage,
                   lastParsedCommitMessage, messageUsed, discarded, gitChild>>

\* performCommit returns to its caller: in the loop getFilesChangedCount
\* is called next, after the loop writeSummary
performCommitReturns(closed) ==
    /\ commitFor' = "none"
    /\ messageUsed' = NoMessage
    /\ IF commitFor = "iteration"
       THEN /\ inFlight' = (inFlight \ {closed}) \cup {"gitDiffNames"}
            /\ events' = events \o <<Ended(closed), Started("gitDiffNames")>>
            /\ pc' = "filesChanged"
       ELSE /\ inFlight' = inFlight \ {closed}
            /\ events' = events \o <<Ended(closed)>>
            /\ pc' = "summary"

\* the commitMessage argument of the call of performCommit in progress:
\* parsedCommitMessage in the loop, lastParsedCommitMessage after it
commitMessageArgument ==
    IF commitFor = "iteration"
    THEN parsedCommitMessage ELSE lastParsedCommitMessage

\* performCommit: const status = await getGitStatus();
\* if (!status.hasChanges) return;
\* const message = commitMessage || `chore(rl): iteration ...`;
\* then commit() calls stageAll
GitStatus ==
    /\ pc = "gitStatus"
    /\ \E child \in StatusOutcomes :
         /\ gitChild' = child
         /\ IF child = "changes"
            THEN /\ messageUsed' = IF Truthy(commitMessageArgument)
                               THEN commitMessageArgument
                               ELSE fallbackMessage(iteration, SessionName)
                 /\ inFlight' = (inFlight \ {"gitStatus"}) \cup {"gitAdd"}
                 /\ events' = events \o <<Ended("gitStatus"), Started("gitAdd")>>
                 /\ pc' = "gitAdd"
                 /\ UNCHANGED commitFor
            ELSE performCommitReturns("gitStatus")
    /\ UNCHANGED <<config, iteration, stopReason, lastOutput, result, retried,
                   ledger, ledgerExists, priorLen, sessionDir, isResumed,
                   tempFile, attempts, executions, agentFailed, stopHookRuns,
                   stopHookChild, hookCall, pending, outcome, prior,
                   promptSource, promptCopy, shouldAutoCommit, isGitRepo,
                   hookChild,
                   agent, totalTokens, iterationTokens, parsedCommitMessage,
                   lastParsedCommitMessage, discarded>>

\* mutation of GitAdd: a staging failure ends the loop like a failed
\* execution
GitAdd_failureStops ==
    /\ pc = "gitAdd"
    /\ \E child \in GitOutcomes :
         /\ gitChild' = child
         /\ IF child = "ok"
            THEN /\ inFlight' = (inFlight \ {"gitAdd"}) \cup {"gitStatus"}
                 /\ events' = events \o <<Ended("gitAdd"), Started("gitStatus")>>
                 /\ pc' = "gitRestatus"
                 /\ UNCHANGED <<commitFor, messageUsed>>
            ELSE /\ commitFor' = "none"
                 /\ messageUsed' = NoMessage
                 /\ inFlight' = inFlight \ {"gitAdd"}
                 /\ events' = events \o <<Ended("gitAdd")>>
                 /\ pc' = "terminate"
    /\ stopReason' = IF pc' = "terminate" THEN ExecutionError ELSE stopReason
    /\ UNCHANGED <<config, iteration, lastOutput, result, retried,
                   ledger, ledgerExists, priorLen, sessionDir, isResumed,
                   tempFile, attempts, executions, agentFailed, stopHookRuns,
                   stopHookChild, hookCall, pending, outcome, prior,
                   promptSource, promptCopy, shouldAutoCommit, isGitRepo,
                   hookChild,
                   agent, totalTokens, iterationTokens, parsedCommitMessage,
                   lastParsedCommitMessage, discarded>>

\* commit: const stageResult = await stageAll(); if (!stageResult) return;
\* otherwise getGitStatus is called again
GitAdd ==
    /\ pc = "gitAdd"
    /\ \E child \in GitOutcomes :
         /\ gitChild' = child
         /\ IF child = "ok"
            THEN /\ inFlight' = (inFlight \ {"gitAdd"}) \cup {"gitStatus"}
                 /\ events' = events \o <<Ended("gitAdd"), Started("gitStatus")>>
                 /\ pc' = "gitRestatus"
                 /\ UNCHANGED <<commitFor, messageUsed>>
            ELSE performCommitReturns("gitAdd")
    /\ UNCHANGED <<config, iteration, stopReason, lastOutput, result, retried,
                   ledger, ledgerExists, priorLen, sessionDir, isResumed,
                   tempFile, attempts, executions, agentFailed, stopHookRuns,
                   stopHookChild, hookCall, pending, outcome, prior,
                   promptSource, promptCopy, shouldAutoCommit, isGitRepo,
                   hookChild,
                   agent, totalTokens, iterationTokens, parsedCommitMessage,
                   lastParsedCommitMessage, discarded>>

\* commit: const status = await getGitStatus();
\* if (options.addAll && !status.hasChanges) return; otherwise git commit
GitRestatus ==
    /\ pc = "gitRestatus"
    /\ \E child \in StatusOutcomes :
         /\ gitChild' = child
         /\ IF child = "changes"
            THEN /\ inFlight' = (inFlight \ {"gitStatus"}) \cup {"gitCommit"}
                 /\ events' = events \o <<Ended("gitStatus"), Started("gitCommit")>>
                 /\ pc' = "gitCommit"
                 /\ UNCHANGED <<commitFor, messageUsed>>
            ELSE performCommitReturns("gitStatus")
    /\ UNCHANGED <<config, iteration, stopReason, lastOutput, result, retried,
                   ledger, ledgerExists, priorLen, sessionDir, isResumed,
                   tempFile, attempts, executions, agentFailed, stopHookRuns,
                   stopHookChild, hookCall, pending, outcome, prior,
                   promptSource, promptCopy, shouldAutoCommit, isGitRepo,
                   hookChild,
                   agent, totalTokens, iterationTokens, parsedCommitMessage,
                   lastParsedCommitMessage, discarded>>

\* commit: const result = await runGit(["commit", "-m", message]); both
\* outcomes return to performCommit and from there to its caller
GitCommit ==
    /\ pc = "gitCommit"
    /\ \E child \in GitOutcomes :
         /\ gitChild' = child
         /\ performCommitReturns("gitCommit")
    /\ UNCHANGED <<config, iteration, stopReason, lastOutput, result, retried,
                   ledger, ledgerExists, priorLen, sessionDir, isResumed,
                   tempFile, attempts, executions, agentFailed, stopHookRuns,
                   stopHookChild, hookCall, pending, outcome, prior,
                   promptSource, promptCopy, shouldAutoCommit, isGitRepo,
                   hookChild,
                   agent, totalTokens, iterationTokens, parsedCommitMessage,
                   lastParsedCommitMessage, discarded>>

\* const filesChanged = await getFilesChangedCount(); then
\* getGitDiffSummary is called
FilesChanged ==
    /\ pc = "filesChanged"
    /\ \E child \in GitOutcomes : gitChild' = child
    /\ inFlight' = (inFlight \ {"gitDiffNames"}) \cup {"gitDiffStat"}
    /\ events' = events \o <<Ended("gitDiffNames"), Started("gitDiffStat")>>
    /\ pc' = "diffSummary"
    /\ UNCHANGED <<config, iteration, stopReason, lastOutput, result, retried,
                   ledger, ledgerExists, priorLen, sessionDir, isResumed,
                   tempFile, attempts, executions, agentFailed, stopHookRuns,
                   stopHookChild, hookCall, pending, outcome, prior,
                   promptSource, promptCopy, shouldAutoCommit, isGitRepo,
                   commitFor, hookChild,
                   agent, totalTokens, iterationTokens, parsedCommitMessage,
                   lastParsedCommitMessage, messageUsed, discarded>>

\* mutation of DiffSummary: the post-iteration hook is called next, before
\* any record is appended
DiffSummary_hookNext ==
    /\ pc = "diffSummary"
    /\ \E child \in GitOutcomes : gitChild' = child
    /\ hookCall' = runPostIteration(iteration, result.exitCode)
    /\ inFlight' = (inFlight \ {"gitDiffStat"}) \cup HookProcesses("postIteration")
    /\ events' = events \o <<Ended("gitDiffStat")>> \o HookStarts("postIteration")
    /\ pc' = "postHook"
    /\ UNCHANGED <<config, iteration, stopReason, lastOutput, result, retried,
                   ledger, ledgerExists, priorLen, sessionDir, isResumed,
                   tempFile, attempts, executions, agentFailed, stopHookRuns,
                   stopHookChild, pending, outcome, prior,
                   promptSource, promptCopy, shouldAutoCommit, isGitRepo,
                   commitFor, hookChild,
                   agent, totalTokens, iterationTokens, parsedCommitMessage,
                   lastParsedCommitMessage, messageUsed, discarded>>

\* const diffSummary = await getGitDiffSummary()
DiffSummary ==
    /\ pc = "diffSummary"
    /\ \E child \in GitOutcomes : gitChild' = child
    /\ inFlight' = inFlight \ {"gitDiffStat"}
    /\ events' = events \o <<Ended("gitDiffStat")>>
    /\ pc' = "record"
    /\ UNCHANGED <<config, iteration, stopReason, lastOutput, result, retried,
                   ledger, ledgerExists, priorLen, sessionDir, isResumed,
                   tempFile, attempts, executions, agentFailed, stopHookRuns,
                   stopHookChild, hookCall, pending, outcome, prior,
                   promptSource, promptCopy, shouldAutoCommit, isGitRepo,
                   commitFor, hookChild,
                   agent, totalTokens, iterationTokens, parsedCommitMessage,
                   lastParsedCommitMessage, messageUsed, discarded>>

\* mutation of RecordProgress: the post-iteration hook is not awaited
RecordProgress_hookNotAwaited ==
    /\ pc = "record"
    /\ ledger' = appendIteration(ledger, iteration, retried, result.exitCode,
                                 iterationTokens)
    /\ gitChild' = "none"
    /\ hookCall' = runPostIteration(iteration, result.exitCode)
    /\ inFlight' = inFlight \cup HookProcesses("postIteration")
    /\ events' = events \o <<<<"record", "append">>>> \o HookStarts("postIteration")
    /\ pc' = "stopCheck"
    /\ UNCHANGED <<config, iteration, stopReason, lastOutput, result, retried,
                   ledgerExists, priorLen, sessionDir, isResumed, tempFile,
                   attempts, executions, agentFailed, stopHookRuns,
                   stopHookChild, pending, outcome, prior, promptSource,
                   promptCopy, shouldAutoCommit, isGitRepo, commitFor,
                   hookChild,
                   agent, totalTokens, iterationTokens, parsedCommitMessage,
                   lastParsedCommitMessage, messageUsed, discarded>>

\* mutation of RecordProgress: the post-iteration hook is called before
\* the record is appended
RecordProgress_hookFirst ==
    /\ pc = "record"
    /\ ledger' = ledger
    /\ gitChild' = "none"
    /\ hookCall' = runPostIteration(iteration, result.exitCode)
    /\ inFlight' = inFlight \cup HookProcesses("postIteration")
    /\ events' = events \o HookStarts("postIteration")
    /\ pc' = "postHook"
    /\ UNCHANGED <<config, iteration, stopReason, lastOutput, result, retried,
                   ledgerExists, priorLen, sessionDir, isResumed, tempFile,
                   attempts, executions, agentFailed, stopHookRuns,
                   stopHookChild, pending, outcome, prior, promptSource,
                   promptCopy, shouldAutoCommit, isGitRepo, commitFor,
                   hookChild,
                   agent, totalTokens, iterationTokens, parsedCommitMessage,
                   lastParsedCommitMessage, messageUsed, discarded>>

\* progressWriter.appendIteration({...}) and the call of
\* hookExecutor.runPostIteration(iteration, result.exitCode)
RecordProgress ==
    /\ pc = "record"
    /\ ledger' = appendIteration(ledger, iteration, retried, result.exitCode,
                                 iterationTokens)
    /\ gitChild' = "none"
    /\ hookCall' = runPostIteration(iteration, result.exitCode)
    /\ inFlight' = inFlight \cup HookProcesses("postIteration")
    /\ events' = events \o <<<<"record", "append">>>> \o HookStarts("postIteration")
    /\ pc' = "postHook"
    /\ UNCHANGED <<config, iteration, stopReason, lastOutput, result, retried,
                   ledgerExists, priorLen, sessionDir, isResumed, tempFile,
                   attempts, executions, agentFailed, stopHookRuns,
                   stopHookChild, pending, outcome, prior, promptSource,
                   promptCopy, shouldAutoCommit, isGitRepo, commitFor,
                   hookChild,
                   agent, totalTokens, iterationTokens, parsedCommitMessage,
                   lastParsedCommitMessage, messageUsed, discarded>>

\* await hookExecutor.runPostIteration(...) resolves
PostHook ==
    /\ pc = "postHook"
    /\ \E child \in HookChildren("postIteration") : hookChild' = child
    /\ inFlight' = inFlight \ {"postIteration"}
    /\ events' = events \o HookEnds("postIteration")
    /\ pc' = "stopCheck"
    /\ UNCHANGED <<config, iteration, stopReason, lastOutput, result, retried,
                   ledger, ledgerExists, priorLen, sessionDir, isResumed,
                   tempFile, attempts, executions, agentFailed, stopHookRuns,
                   stopHookChild, hookCall, pending, outcome, prior,
                   promptSource, promptCopy, shouldAutoCommit, isGitRepo,
                   commitFor,
                   agent, totalTokens, iterationTokens, parsedCommitMessage,
                   lastParsedCommitMessage, messageUsed, discarded, gitChild>>

\* const stopResult = checkStopConditions(config.stopConditions, stopContext)
\* and the decision whether the stop hook is to be run
stopContext == [iteration |-> iteration, maxIterations |-> config.maxIterations,
                output |-> lastOutput]

StopCheck ==
    /\ pc = "stopCheck"
    /\ LET stopResult == checkStopConditions(config, stopContext) IN
         IF stopResult.threw
         THEN /\ pc' = "finally"
              /\ pending' = ThrownWith(InvalidPattern)
              /\ events' = events \o <<Started("stopCheck")>>
              /\ discarded' = << >>
              /\ UNCHANGED <<stopReason, inFlight>>
         ELSE IF stopResult.shouldStop
         THEN /\ stopReason' = stopResult.reason
              /\ pc' = "terminate"
              /\ events' = events \o <<Started("stopCheck"), Ended("stopCheck")>>
              /\ discarded' = << >>
              /\ UNCHANGED <<pending, inFlight>>
         ELSE IF config.hookEnabled /\ config.hookCommand # NoCommand
         THEN /\ pc' = "stopHook"
              /\ inFlight' = inFlight \cup {"stopHook"}
              /\ events' = events \o <<Started("stopCheck"), Started("stopHook")>>
              /\ UNCHANGED <<stopReason, pending, discarded>>
         ELSE /\ pc' = "loop"
              /\ events' = events \o <<Started("stopCheck"), Ended("stopCheck")>>
              /\ discarded' = << >>
              /\ UNCHANGED <<stopReason, pending, inFlight>>
    /\ UNCHANGED <<config, iteration, lastOutput, result, retried, ledger,
                   ledgerExists, priorLen, sessionDir, isResumed, tempFile,
                   attempts, executions, agentFailed, stopHookRuns,
                   stopHookChild, hookCall, outcome, prior, promptSource,
                   promptCopy, shouldAutoCommit, isGitRepo, commitFor,
                   hookChild,
                   agent, totalTokens, iterationTokens, parsedCommitMessage,
                   lastParsedCommitMessage, messageUsed, gitChild>>

\* const hookResult = await runStopHook(command, hookEnv)
StopHook ==
    /\ pc = "stopHook"
    /\ stopHookRuns' = stopHookRuns \cup {iteration}
    /\ discarded' = << >>
    /\ inFlight' = inFlight \ {"stopHook"}
    /\ events' = events \o <<Ended("stopHook"), Ended("stopCheck")>>
    /\ \E child \in ChildOutcomes :
         LET hookResult == runStopHook(config.hookCommand, child) IN
           /\ stopHookChild' = child
           /\ IF hookResult.shouldStop
              THEN stopReason' = hookResult.reason /\ pc' = "terminate"
              ELSE pc' = "loop" /\ UNCHANGED stopReason
    /\ UNCHANGED <<config, iteration, lastOutput, result, retried, ledger,
                   ledgerExists, priorLen, sessionDir, isResumed, tempFile,
                   attempts, executions, agentFailed, hookCall, pending,
                   outcome, prior, promptSource, promptCopy, shouldAutoCommit,
                   isGitRepo, commitFor, hookChild,
                   agent, totalTokens, iterationTokens, parsedCommitMessage,
                   lastParsedCommitMessage, messageUsed, gitChild>>

\* mutation of finalReason: the reason is left as the loop set it
finalReason_asIs(i, maxIterations, reason) == reason

\* mutation of finalReason: the reason is set only when the max-iterations
\* stop condition is enabled
finalReason_whenEnabled(i, maxIterations, reason) ==
    IF config.stopMaxIterations /\ i >= maxIterations /\ reason = Unknown
    THEN ReachedMax(maxIterations) ELSE reason

\* if (iteration >= config.maxIterations && stopReason === "unknown")
\* stopReason = `Reached max iterations (...)`
finalReason(i, maxIterations, reason) ==
    IF i >= maxIterations /\ reason = Unknown
    THEN ReachedMax(maxIterations) ELSE reason

\* after the loop: the max-iterations reason and the on-stop commit
Terminate ==
    /\ pc = "terminate"
    /\ stopReason' = finalReason(iteration, config.maxIterations, stopReason)
    /\ IF commitsAt("on-stop")
       THEN /\ commitFor' = "stop"
            /\ inFlight' = inFlight \cup {"gitStatus"}
            /\ events' = events \o <<Started("gitStatus")>>
            /\ pc' = "gitStatus"
       ELSE /\ pc' = "summary"
            /\ UNCHANGED <<commitFor, inFlight, events>>
    /\ UNCHANGED <<config, iteration, lastOutput, result, retried, ledger,
                   ledgerExists, priorLen, sessionDir, isResumed, tempFile,
                   attempts, executions, agentFailed, stopHookRuns,
                   stopHookChild, hookCall, pending, outcome, prior,
                   promptSource, promptCopy, shouldAutoCommit, isGitRepo,
                   hookChild,
                   agent, totalTokens, iterationTokens, parsedCommitMessage,
                   lastParsedCommitMessage, messageUsed, discarded, gitChild>>

\* mutation of WriteSummary: the completion hook is called and no summary
\* is written
WriteSummary_hookOnly ==
    /\ pc = "summary"
    /\ ledger' = ledger
    /\ gitChild' = "none"
    /\ hookCall' = runOnComplete(iteration, stopReason)
    /\ inFlight' = inFlight \cup HookProcesses("onComplete")
    /\ events' = events \o HookStarts("onComplete")
    /\ pc' = "completeHook"
    /\ UNCHANGED <<config, iteration, stopReason, lastOutput, result, retried,
                   ledgerExists, priorLen, sessionDir, isResumed, tempFile,
                   attempts, executions, agentFailed, stopHookRuns,
                   stopHookChild, pending, outcome, prior, promptSource,
                   promptCopy, shouldAutoCommit, isGitRepo, commitFor,
                   hookChild,
                   agent, totalTokens, iterationTokens, parsedCommitMessage,
                   lastParsedCommitMessage, messageUsed, discarded>>

\* progressWriter.writeSummary({ totalIterations: iteration, stopReason })
\* and the call of hookExecutor.runOnComplete(iteration, stopReason)
WriteSummary ==
    /\ pc = "summary"
    /\ ledger' = writeSummary(ledger, iteration, stopReason, totalTokens)
    /\ gitChild' = "none"
    /\ hookCall' = runOnComplete(iteration, stopReason)
    /\ inFlight' = inFlight \cup HookProcesses("onComplete")
    /\ events' = events \o HookStarts("onComplete")
    /\ pc' = "completeHook"
    /\ UNCHANGED <<config, iteration, stopReason, lastOutput, result, retried,
                   ledgerExists, priorLen, sessionDir, isResumed, tempFile,
                   attempts, executions, agentFailed, stopHookRuns,
                   stopHookChild, pending, outcome, prior, promptSource,
                   promptCopy, shouldAutoCommit, isGitRepo, commitFor,
                   hookChild,
                   agent, totalTokens, iterationTokens, parsedCommitMessage,
                   lastParsedCommitMessage, messageUsed, discarded>>

\* await hookExecutor.runOnComplete(...) resolves;
\* return { totalIterations: iteration, stopReason, session, success: true }
CompleteHook ==
    /\ pc = "completeHook"
    /\ \E child \in HookChildren("onComplete") : hookChild' = child
    /\ inFlight' = inFlight \ {"onComplete"}
    /\ events' = events \o HookEnds("onComplete")
    /\ pending' = Returned(iteration, stopReason)
    /\ pc' = "finally"
    /\ UNCHANGED <<config, iteration, stopReason, lastOutput, result, retried,
                   ledger, ledgerExists, priorLen, sessionDir, isResumed,
                   tempFile, attempts, executions, agentFailed, stopHookRuns,
                   stopHookChild, hookCall, outcome, prior, promptSource,
                   promptCopy, shouldAutoCommit, isGitRepo, commitFor,
                   agent, totalTokens, iterationTokens, parsedCommitMessage,
                   lastParsedCommitMessage, messageUsed, discarded, gitChild>>

\* mutation of Finally: the cleanup runs on the return path only
Finally_returnOnly ==
    /\ pc = "finally"
    /\ tempFile' = IF pending.kind = "returned" THEN "removed" ELSE tempFile
    /\ outcome' = pending
    /\ pc' = "done"
    /\ UNCHANGED <<config, iteration, stopReason, lastOutput, result, retried,
                   ledger, ledgerExists, priorLen, sessionDir, isResumed,
                   attempts, executions, agentFailed, stopHookRuns,
                   stopHookChild, hookCall, pending, prior, promptSource,
                   promptCopy, shouldAutoCommit, isGitRepo, commitFor,
                   inFlight, events, hookChild,
                   agent, totalTokens, iterationTokens, parsedCommitMessage,
                   lastParsedCommitMessage, messageUsed, discarded, gitChild>>

\* finally { combinedPrompt.cleanup() }
Finally ==
    /\ pc = "finally"
    /\ tempFile' = "removed"
    /\ outcome' = pending
    /\ pc' = "done"
    /\ UNCHANGED <<config, iteration, stopReason, lastOutput, result, retried,
                   ledger, ledgerExists, priorLen, sessionDir, isResumed,
                   attempts, executions, agentFailed, stopHookRuns,
                   stopHookChild, hookCall, pending, prior, promptSource,
                   promptCopy, shouldAutoCommit, isGitRepo, commitFor,
                   inFlight, events, hookChild,
                   agent, totalTokens, iterationTokens, parsedCommitMessage,
                   lastParsedCommitMessage, messageUsed, discarded, gitChild>>

Next ==
    \/ Start
    \/ BuildCommand
    \/ LoopHead
    \/ PreHook
    \/ Execute
    \/ RetryDecision
    \/ RetryHook
    \/ RetryExecute
    \/ ErrorDecision
    \/ ErrorHook
    \/ GitStatus
    \/ GitAdd
    \/ GitRestatus
    \/ GitCommit
    \/ FilesChanged
    \/ DiffSummary
    \/ RecordProgress
    \/ PostHook
    \/ StopCheck
    \/ StopHook
    \/ Terminate
    \/ WriteSummary
    \/ CompleteHook
    \/ Finally

Spec == Init /\ [][Next]_vars

SpecSession == InitSession /\ [][Next]_vars

SpecProcesses == InitProcesses /\ [][Next]_vars

SpecReports == InitReports /\ [][Next]_vars

\* accumulateTokens on its own: a total drawn from Totals, a usage drawn
\* from Usages, and the step of runLoop that accumulates the usage,
\* totalTokens = accumulateTokens(totalTokens, iterationTokens)
InitAccumulate ==
    /\ config = CHOOSE c \in ReportConfigs : TRUE
    /\ prior = NoSession
    /\ promptSource = "prompt v1"
    /\ agent = ReportingResults
    /\ sessionDir = prior.dir
    /\ ledgerExists = prior.exists
    /\ ledger = prior.file
    /\ priorLen = Len(prior.file)
    /\ promptCopy = prior.promptCopy
    /\ pc = "accumulateTokens"
    /\ iteration = 0
    /\ stopReason = Unknown
    /\ lastOutput = << >>
    /\ result = NoResult
    /\ retried = FALSE
    /\ isResumed = FALSE
    /\ tempFile = "none"
    /\ attempts = << >>
    /\ executions = 0
    /\ agentFailed = FALSE
    /\ stopHookRuns = {}
    /\ stopHookChild = NoChild
    /\ hookCall = NoHook
    /\ pending = Running
    /\ outcome = Running
    /\ shouldAutoCommit = FALSE
    /\ isGitRepo = FALSE
    /\ commitFor = "none"
    /\ inFlight = {}
    /\ events = << >>
    /\ hookChild = NoChild
    /\ totalTokens \in Totals
    /\ \E usage \in Usages : iterationTokens = Parsed(usage)
    /\ parsedCommitMessage = NoMessage
    /\ lastParsedCommitMessage = NoMessage
    /\ messageUsed = NoMessage
    /\ discarded = << >>
    /\ gitChild = "none"

\* if (iterationTokens) totalTokens = accumulateTokens(totalTokens,
\* iterationTokens)
Accumulate ==
    /\ pc = "accumulateTokens"
    /\ iterationTokens.found
    /\ totalTokens' = accumulateTokens(totalTokens, iterationTokens.usage)
    /\ pc' = "accumulated"
    /\ UNCHANGED <<config, iterationTokens, iteration, stopReason, lastOutput, result,
                   retried, ledger, ledgerExists, priorLen, sessionDir,
                   isResumed, tempFile, attempts, executions, agentFailed,
                   stopHookRuns, stopHookChild, hookCall, pending, outcome,
                   prior, promptSource, promptCopy, shouldAutoCommit,
                   isGitRepo, commitFor, inFlight, events, hookChild, agent,
                   parsedCommitMessage, lastParsedCommitMessage, messageUsed,
                   discarded, gitChild>>

NextAccumulate == Accumulate

SpecAccumulate == InitAccumulate /\ [][NextAccumulate]_vars

\* Every step of runLoop is synchronous code or an await of a child
\* process, a hook or the agent; when every child process ends, every
\* await resolves and the step that is enabled is eventually taken.
SpecTermination == InitTermination /\ [][Next]_vars /\ WF_vars(Next)

(* ------------------------ derived quantities -------------------------- *)

\* the sections this run wrote to progress.md
RunSections == SubSeq(ledger, priorLen + 1, Len(ledger))

IsIteration(section) == section.type = "iteration"

\* the iteration records this run appended
RunRecords == SelectSeq(RunSections, IsIteration)

\* the loop has been left: the code after the while statement, or beyond
AfterLoop ==
    \/ pc \in {"terminate", "summary", "completeHook", "finally", "done"}
    \/ commitFor = "stop"

\* the current iteration is past the error decision and its record is
\* not yet appended: the per-iteration commit, the git diff queries
Recording ==
    /\ pc \in {"gitStatus", "gitAdd", "gitRestatus", "gitCommit",
               "filesChanged", "diffSummary", "record"}
    /\ commitFor # "stop"

\* runLoop is ending by an exception that propagates to its caller
Throwing == pending.kind = "thrown" \/ outcome.kind = "thrown"

\* the stdout+stderr captured by the last completed agent execution
CapturedOutput == result.stdout \o result.stderr

(* ------------------------------- C1 ----------------------------------- *)

\* C1: with the output pattern and the stop hook disabled and an agent whose
\* every execution exits 0, a run with maxIterations = N that returns has
\* executed the agent exactly N times, appended exactly N iteration
\* records, and returns stop reason "Reached max iterations (N)" and
\* totalIterations = N; before that it never executed more than N times.
C1_ExactlyMaxIterations ==
    (~config.patternEnabled /\ ~config.hookEnabled /\ ~agentFailed) =>
        /\ executions <= config.maxIterations
        /\ Len(RunRecords) <= config.maxIterations
        /\ ~Throwing /\ AfterLoop =>
             /\ executions = config.maxIterations
             /\ Len(RunRecords) = config.maxIterations
             /\ iteration = config.maxIterations
        /\ outcome.kind = "returned" =>
             outcome = Returned(config.maxIterations,
                                ReachedMax(config.maxIterations))

C1_Witness ==
    /\ pc = "done" /\ outcome.kind = "returned"
    /\ ~config.patternEnabled /\ ~config.hookEnabled /\ ~agentFailed
    /\ ~config.stopMaxIterations
    /\ config.maxIterations = MaxIter
    /\ executions = MaxIter

(* ------------------------------- C2 ----------------------------------- *)

\* both attempts of the current iteration exited nonzero under retry-once
RetryAlsoFailed ==
    /\ config.strategy = "retry-once"
    /\ Len(attempts) = 2
    /\ attempts[1] > 0 /\ attempts[2] > 0

\* C2: under retry-once, once the first attempt and the single retry of an
\* iteration have both exited nonzero, no step starts a later iteration or
\* executes the agent again.
C2_RetryOnceThenTerminate ==
    [][RetryAlsoFailed => (iteration' = iteration /\ executions' = executions)]_vars

(* ------------------------------- C3 ----------------------------------- *)

\* C3: under strategy stop, a nonzero exit X of the agent in iteration N
\* ends the loop at once: that execution is the only one of the iteration,
\* control goes to the termination code without a retry or a later
\* iteration, and the stop reason is "Error on iteration N (exit code X)".
C3_StopOnFirstError ==
    (config.strategy = "stop" /\ attempts # << >> /\ attempts[1] > 0) =>
        /\ Len(attempts) = 1
        /\ executions = iteration
        /\ pc \in {"retryDecision", "errorDecision", "errorHook"} \/ AfterLoop
        /\ AfterLoop => stopReason = ErrorOnIteration(iteration, attempts[1])
        /\ pc = "done" =>
             outcome = Returned(iteration, ErrorOnIteration(iteration, attempts[1]))

C3_Witness ==
    /\ pc = "done"
    /\ config.strategy = "stop"
    /\ attempts = <<MaxExit>>
    /\ iteration = 1 /\ config.maxIterations = MaxIter
    /\ outcome.stopReason = ErrorOnIteration(1, MaxExit)

(* ------------------------------- C4 ----------------------------------- *)

\* the records this run appended for iteration i
RecordsOf(i) == SelectSeq(RunRecords, LAMBDA section : section.n = i)

\* the first attempt of the current iteration exited nonzero and the
\* retry exited 0
RetrySucceeded ==
    /\ config.strategy = "retry-once"
    /\ Len(attempts) = 2
    /\ attempts[1] > 0 /\ attempts[2] = 0

\* C4: under retry-once, an iteration whose first attempt exits nonzero and
\* whose retry exits 0 is recorded exactly once, with status retried and
\* exit code 0, then goes on to stop evaluation; the loop ends there only
\* if a stop condition matched or the iteration was the last one, never
\* with an error reason.
C4_RetrySuccessRecorded ==
    RetrySucceeded =>
        /\ \/ pc \in {"errorDecision", "postHook", "stopCheck", "stopHook", "loop"}
           \/ Recording \/ AfterLoop
        /\ RecordsOf(iteration) =
             IF pc = "errorDecision" \/ Recording
             THEN << >>
             ELSE <<IterationSection(iteration, "retried", 0)>>
        /\ (AfterLoop /\ ~Throwing) =>
             \/ stopReason \in {PatternMatched(config.pattern),
                                StopHookSuccess(config.hookCommand),
                                ReachedMax(config.maxIterations)}
             \/ pc = "terminate" /\ stopReason = Unknown
                                 /\ iteration = config.maxIterations

\* a later iteration is running after an iteration recorded as retried
\* with exit code 0
C4_Witness ==
    /\ config.strategy = "retry-once"
    /\ pc = "execute"
    /\ iteration = 2
    /\ RecordsOf(1) = <<IterationSection(1, "retried", 0)>>

(* ------------------------------- C5 ----------------------------------- *)

\* C5: under strategy continue with the output pattern and the stop hook
\* disabled, and an agent whose executions resolve, the loop is left only
\* after iteration maxIterations, every iteration that got past the error
\* decision is recorded once with the exit code of its execution, and a
\* record has status failed exactly when that exit code is nonzero.
C5_ContinueNeverHalts ==
    (/\ config.strategy = "continue"
     /\ ~config.patternEnabled /\ ~config.hookEnabled
     /\ stopReason # ExecutionError) =>
        /\ (AfterLoop /\ ~Throwing) => iteration = config.maxIterations
        /\ pc \in {"postHook", "stopCheck", "loop", "terminate"} =>
             Len(RunRecords) = iteration
        /\ pc \in {"postHook", "stopCheck"} =>
             RunRecords[iteration].exitCode = attempts[1]
        /\ \A k \in 1..Len(RunRecords) :
             /\ RunRecords[k].n = k
             /\ RunRecords[k].status = "failed" <=> RunRecords[k].exitCode # 0

\* the run returned after every iteration failed
C5_Witness ==
    /\ config.strategy = "continue"
    /\ ~config.patternEnabled /\ ~config.hookEnabled
    /\ pc = "done" /\ outcome.kind = "returned"
    /\ config.maxIterations = MaxIter
    /\ Len(RunRecords) = MaxIter
    /\ \A k \in 1..MaxIter : RunRecords[k].status = "failed"

(* ------------------------------- C6 ----------------------------------- *)

\* C6: the agent is executed at most twice per iteration; a second
\* execution happens only under retry-once after a nonzero first exit,
\* whatever errorHandling.maxRetries is; under stop and continue every
\* iteration executes the agent exactly once.
C6_AtMostOneRetry ==
    /\ Len(attempts) <= 2
    /\ executions <= 2 * iteration
    /\ Len(attempts) = 2 => (config.strategy = "retry-once" /\ attempts[1] > 0)
    /\ (config.strategy \in {"stop", "continue"} /\ pc \notin {"preHook", "execute"}) =>
         /\ executions = iteration
         /\ iteration >= 1 => Len(attempts) = 1

\* a retry is performed although maxRetries is 0
C6_Witness ==
    /\ config.maxRetries = MinRetries
    /\ Len(attempts) = 2
    /\ pc = "errorDecision"

(* ------------------------------- C7 ----------------------------------- *)

\* the output-pattern condition is enabled with a pattern (the evaluator
\* tests enabled && pattern) and the output captured by the last completed
\* execution matches it
OutputMatches ==
    /\ config.patternEnabled /\ Truthy(config.pattern)
    /\ result # NoResult
    /\ RegExpValid(config.pattern)
    /\ RegExpTest(config.pattern, CapturedOutput)

\* the current iteration has been recorded in the ledger
Recorded == iteration >= 1 /\ Len(RecordsOf(iteration)) = 1

\* C7 as stated: whenever the output captured in iteration k < maxIterations
\* matches the enabled pattern and the iteration's executions are over, the
\* loop ends with iteration k recorded and a stop reason naming the pattern.
C7_PatternStopsAnyIteration ==
    (/\ OutputMatches
     /\ iteration < config.maxIterations
     /\ AfterLoop /\ ~Throwing /\ stopReason # ExecutionError) =>
        /\ Recorded
        /\ stopReason = PatternMatched(config.pattern)

\* C7 (amended): with the output-pattern condition enabled, if iteration
\* k < maxIterations is recorded (it was not ended by strategy stop or by
\* a rejected execution) and the output of its last execution matches the
\* pattern, the loop stops after iteration k: control does not return to
\* the loop head, and the run returns k iterations with the stop reason
\* "Output pattern matched: <pattern>".
C7_PatternStopsRecordedIteration ==
    (/\ OutputMatches
     /\ Recorded
     /\ iteration < config.maxIterations) =>
        /\ pc \in {"postHook", "stopCheck"} \/ AfterLoop
        /\ AfterLoop => stopReason = PatternMatched(config.pattern)
        /\ pc = "done" =>
             outcome = Returned(iteration, PatternMatched(config.pattern))

\* the pattern spans stdout and stderr of iteration 1 of 2
C7_Witness ==
    /\ pc = "done"
    /\ config.patternEnabled /\ config.pattern = <<"D", "E">>
    /\ result.stdout = <<"D">> /\ result.stderr = <<"E">>
    /\ iteration = 1 /\ config.maxIterations = 2
    /\ outcome = Returned(1, PatternMatched(<<"D", "E">>))

(* ------------------------------- C8 ----------------------------------- *)

\* the max-iterations condition matches in the current iteration
MaxMatches == config.stopMaxIterations /\ iteration >= config.maxIterations

\* the output-pattern condition matches in the current iteration
PatternMatches == OutputMatches

\* stop evaluation of the current, recorded iteration is over
StopEvaluated == Recorded /\ (pc \in {"stopHook", "loop"} \/ AfterLoop)

\* C8: the stop conditions are evaluated in the order max-iterations,
\* output pattern, stop hook and the first match wins: after stop
\* evaluation the reason is the max-iterations reason whenever that
\* condition matched (even if the output matches the pattern, and without
\* the pattern being compiled), else the pattern reason whenever the
\* pattern matched; and the stop hook is not executed in an iteration where
\* either of them matched.
C8_StopConditionOrder ==
    /\ (StopEvaluated /\ MaxMatches) =>
         /\ AfterLoop /\ ~Throwing
         /\ stopReason = ReachedMax(config.maxIterations)
    /\ (StopEvaluated /\ ~MaxMatches /\ PatternMatches) =>
         /\ AfterLoop /\ ~Throwing
         /\ stopReason = PatternMatched(config.pattern)
    /\ (pc = "stopHook" \/ iteration \in stopHookRuns) =>
         ~MaxMatches /\ ~PatternMatches

\* the last iteration's output matches the pattern, the stop hook is
\* configured, and the reason is the max-iterations reason
C8_Witness ==
    /\ pc = "terminate"
    /\ MaxMatches /\ PatternMatches
    /\ config.hookEnabled /\ config.hookCommand # NoCommand
    /\ stopReason = ReachedMax(config.maxIterations)
    /\ stopHookRuns = 1..(iteration - 1)
    /\ iteration = MaxIter

(* ------------------------------- C9 ----------------------------------- *)

\* the stop hook was executed in the current iteration
StopHookRan == iteration \in stopHookRuns

\* C9: the stop hook ends the loop exactly when its process closes with
\* exit code 0: then the reason is "Stop hook returned success: <command>";
\* after a nonzero code, a null code or a spawn error the reason is not
\* the stop-hook reason, control is back at the loop head, and the run can
\* only end through the iteration limit.
C9_StopHookOnlyOnZero ==
    StopHookRan =>
        IF stopHookChild.kind = "close" /\ stopHookChild.code = 0
        THEN /\ AfterLoop
             /\ stopReason = StopHookSuccess(config.hookCommand)
        ELSE /\ stopReason \in {Unknown, ReachedMax(config.maxIterations)}
             /\ iteration < config.maxIterations => pc = "loop"
             /\ pc = "loop" \/ AfterLoop
             /\ pc = "done" => outcome = Returned(config.maxIterations,
                                                  ReachedMax(config.maxIterations))

\* the stop hook failed to spawn and the loop goes on
C9_Witness ==
    /\ StopHookRan
    /\ stopHookChild.kind = "error"
    /\ pc = "loop"
    /\ iteration < config.maxIterations

(* ------------------------------- C10 ---------------------------------- *)

\* C10: once the header is written, runLoop does not return or throw
\* before this run has appended a summary section as the last section of
\* the ledger.
C10_SummaryAlwaysWritten ==
    (pc = "done" /\ tempFile # "none") =>
        /\ Len(RunSections) >= 2
        /\ ledger[Len(ledger)].type = "summary"

(* ------------------------------- C11 ---------------------------------- *)

\* C11: when a run returns totalIterations = N, the summary it wrote
\* reports N as well and the ledger holds exactly N iteration records
\* appended by this run, numbered 1..N in order, whatever ended the loop.
C11_RecordsEqualTotal ==
    (pc = "done" /\ outcome.kind = "returned") =>
        /\ ledger[Len(ledger)] =
             SummarySection(outcome.totalIterations, outcome.stopReason)
        /\ Len(RunRecords) = outcome.totalIterations
        /\ \A k \in 1..Len(RunRecords) : RunRecords[k].n = k

(* ------------------------------- C12 ---------------------------------- *)

\* s is an initial part of t
IsPrefix(s, t) == Len(s) <= Len(t) /\ SubSeq(t, 1, Len(s)) = s

\* this step is the writeFileSync of writeHeader: progress.md now ends
\* with a session header
HeaderWritten ==
    /\ pc = "start" /\ pc' = "build"
    /\ ledger'[Len(ledger')].type = "header"

C13_RecordNumbersContiguous ==
    /\ Len(RunRecords) <= iteration
    /\ \A k \in 1..Len(RunRecords) : RunRecords[k].n = k

\* every iteration of the longest run was retried and recorded
C13_Witness ==
    /\ pc = "done"
    /\ config.strategy = "retry-once"
    /\ Len(RunRecords) = MaxIter
    /\ executions = 2 * MaxIter
    /\ \A k \in 1..MaxIter : RunRecords[k].status = "retried"

(* ------------------------------- C14 ---------------------------------- *)

\* getOrCreateSession has returned in this run
SessionOpened == tempFile # "none"

\* C14: when the session directory exists, getOrCreateSession resumes it:
\* isResumed is true, the directory stays, prompt.md keeps the content it
\* had (also when the prompt file has been edited since), and writeHeader
\* appends a "Resumed" section behind the unchanged content of an existing
\* progress.md.  Only a session whose directory did not exist gets a copy
\* of the prompt and a ledger that starts with a session header.
C14_ResumeKeepsSession ==
    SessionOpened =>
        IF prior.dir
        THEN /\ isResumed /\ sessionDir
             /\ promptCopy = prior.promptCopy
             /\ prior.exists =>
                  /\ IsPrefix(prior.file, ledger)
                  /\ ledger[priorLen + 1] = ResumedSection(config.maxIterations)
        ELSE /\ ~isResumed /\ sessionDir
             /\ promptCopy = promptSource
             /\ ledger[1] = HeaderSection(config.maxIterations)

\* a session was resumed after its prompt file had been edited, and the
\* run returned
C14_Witness ==
    /\ pc = "done" /\ outcome.kind = "returned"
    /\ prior.dir /\ prior.exists
    /\ promptSource = "prompt v2" /\ promptCopy = "prompt v1"
    /\ isResumed
    /\ ledger[priorLen + 1].type = "resumed"

(* ------------------------------- C15 ---------------------------------- *)

\* the last agent execution of the current iteration threw
ExecutionThrew == attempts # << >> /\ attempts[Len(attempts)] = Rejected.exitCode

\* C15: when executing the agent throws in iteration N, the exception does
\* not leave runLoop: the loop is left at once with the stop reason
\* "Execution error: ...", no later iteration starts, the summary is
\* written and the completion hook is called with N and that reason, and
\* runLoop returns N and that reason.
C15_ExecutionErrorContained ==
    ExecutionThrew =>
        /\ AfterLoop /\ ~Throwing
        /\ stopReason = ExecutionError
        /\ pc \in {"completeHook", "finally", "done"} =>
             /\ ledger[Len(ledger)] = SummarySection(iteration, ExecutionError)
             /\ hookCall = runOnComplete(iteration, ExecutionError)
        /\ pc \in {"finally", "done"} =>
             pending = Returned(iteration, ExecutionError)
        /\ pc = "done" => outcome = Returned(iteration, ExecutionError)

\* the first of several iterations threw and the run returned
C15_Witness ==
    /\ pc = "done"
    /\ ExecutionThrew
    /\ iteration = 1 /\ config.maxIterations = MaxIter
    /\ outcome = Returned(1, ExecutionError)

(* ------------------------------- C16 ---------------------------------- *)

\* C16: when the adapter reports the tool unavailable, runLoop throws with
\* nothing of the session touched: the session directory, prompt.md and
\* progress.md are as they were before the call (none is created for a new
\* session name), no combined-prompt file exists, no hook was called, no
\* child process of the loop was started and the agent was not executed.
C16_UnavailableToolLeavesNothing ==
    outcome.error = ToolNotInstalled =>
        /\ pc = "done" /\ outcome.kind = "thrown"
        /\ sessionDir = prior.dir
        /\ promptCopy = prior.promptCopy
        /\ ledgerExists = prior.exists /\ ledger = prior.file
        /\ tempFile = "none"
        /\ hookCall = NoHook
        /\ inFlight = {} /\ events = << >>
        /\ iteration = 0 /\ executions = 0

\* the tool is unavailable for a new session name: no directory, although
\* the prompt file may exist
C16_Witness ==
    /\ outcome.error = ToolNotInstalled
    /\ ~prior.dir /\ ~sessionDir /\ ~ledgerExists
    /\ promptCopy = NoFile

(* ------------------------------- C17 ---------------------------------- *)

\* C17: the combined-prompt file is created once, by the step that opens
\* the session; it exists exactly while runLoop is between that step and
\* its exit; and whenever runLoop has exited after creating it, by a return
\* or by an exception, the cleanup has run and the file is gone.  A run
\* that ends without the file ever existing threw before creating it.
C17_TempFileRemovedOnExit ==
    /\ [](/\ tempFile = "exists" <=> pc \notin {"start", "done"}
          /\ (pc = "done" /\ tempFile = "none") =>
               outcome.error \in {ToolNotInstalled, PromptNotFound})
    /\ [][tempFile' # tempFile =>
            \/ tempFile = "none" /\ tempFile' = "exists" /\ pc = "start"
            \/ tempFile = "exists" /\ tempFile' = "removed" /\ pc' = "done"]_vars

\* runLoop left by an exception of the stop-condition evaluator, after
\* completed iterations, and the file is gone
C17_Witness ==
    /\ pc = "done"
    /\ outcome.error = InvalidPattern
    /\ Len(RunRecords) >= 1
    /\ tempFile = "removed"

(* ------------------------------- C18 ---------------------------------- *)

\* the event e is in the log of the current iteration
Occurs(e) == \E i \in 1..Len(events) : events[i] = e

\* number of events e among the first k - 1 events of the iteration
CountBefore(e, k) == Cardinality({i \in 1..(k - 1) : events[i] = e})

\* every child process `name` started before the k-th event has closed
\* before it
ClosedBefore(name, k) ==
    CountBefore(Started(name), k) = CountBefore(Ended(name), k)

\* every event of the processes in `first` precedes every event of the
\* processes in `second`
Precede(first, second) ==
    \A i, j \in 1..Len(events) :
        (events[i][1] \in first /\ events[j][1] \in second) => i < j

\* C18: within an iteration the pre-iteration hook has completed (or was
\* skipped) before the first agent execution starts; every agent
\* execution, the retry and its on-error hook included, has completed
\* before the post-iteration hook starts; the post-iteration hook has
\* completed before the stop conditions are evaluated and the stop hook
\* starts; and a step that starts the next iteration is taken only after
\* stop evaluation has completed, with no child process left running.
C18_IterationOrder ==
    /\ [](/\ Precede({"preIteration"}, {"agent", "onError"})
          /\ Precede({"agent", "onError"}, {"postIteration"})
          /\ Precede({"preIteration", "agent", "onError", "postIteration"},
                     {"stopCheck", "stopHook"})
          /\ \A k \in 1..Len(events) :
               /\ events[k] = Started("agent") =>
                    /\ ClosedBefore("preIteration", k)
                    /\ ClosedBefore("agent", k)
                    /\ ClosedBefore("onError", k)
               /\ events[k] = Started("postIteration") =>
                    /\ ClosedBefore("agent", k)
                    /\ ClosedBefore("onError", k)
                    /\ CountBefore(Ended("agent"), k) >= 1
               /\ events[k] = Started("stopCheck") =>
                    /\ ClosedBefore("postIteration", k)
                    /\ ClosedBefore("agent", k)
                    /\ CountBefore(Ended("agent"), k) >= 1
               /\ events[k] = Started("stopHook") =>
                    /\ CountBefore(Started("stopCheck"), k) = 1
                    /\ ClosedBefore("postIteration", k))
    /\ [][(iteration' # iteration /\ iteration >= 1) =>
            /\ events # << >>
            /\ events[Len(events)] = Ended("stopCheck")
            /\ inFlight = {}]_vars

\* an iteration with every lifecycle hook configured went through the
\* pre-iteration hook, a failed execution, the on-error hook, the retry, a
\* commit, the post-iteration hook and the stop hook, and the loop goes on
C18_Witness ==
    /\ pc = "loop" /\ iteration = 1 /\ retried
    /\ config.hooks = LifecycleHooks
    /\ Occurs(Ended("preIteration")) /\ Occurs(Ended("onError"))
    /\ Occurs(Ended("gitCommit")) /\ Occurs(Ended("postIteration"))
    /\ events[Len(events) - 1] = Ended("stopHook")
    /\ events[Len(events)] = Ended("stopCheck")

(* ------------------------------- C19 ---------------------------------- *)

\* the child processes the controller starts: the agent, the lifecycle
\* hooks, the stop hook, and git for status, add, commit and the two diff
\* queries
ChildNames ==
    {"agent", "preIteration", "postIteration", "onError", "onComplete",
     "stopHook", "gitStatus", "gitAdd", "gitCommit", "gitDiffNames",
     "gitDiffStat"}

\* C19: at most one child process of the controller is running at any
\* time, and a child process is spawned only when every child process
\* spawned before it in the iteration has closed.
C19_OneChildAtATime ==
    /\ inFlight \subseteq ChildNames
    /\ Cardinality(inFlight) <= 1
    /\ \A k \in 1..Len(events) :
         (events[k][1] \in ChildNames /\ events[k][2] = "start") =>
             \A name \in ChildNames : ClosedBefore(name, k)

\* git commit is running, after the pre-iteration hook, the agent and the
\* earlier git commands of the iteration have closed
C19_Witness ==
    /\ inFlight = {"gitCommit"}
    /\ commitFor = "iteration"
    /\ config.hooks = LifecycleHooks
    /\ Occurs(Ended("preIteration")) /\ Occurs(Ended("agent"))
    /\ Occurs(Ended("gitAdd"))

(* ------------------------------- C20 ---------------------------------- *)

\* the positions at which runLoop awaits a lifecycle hook
HookAwaits == {"preHook", "retryHook", "errorHook", "postHook", "completeHook"}

\* the lifecycle hook awaited at each of them
AwaitedHook ==
    [p \in HookAwaits |->
        CASE p = "preHook" -> "preIteration"
          [] p = "postHook" -> "postIteration"
          [] p = "completeHook" -> "onComplete"
          [] OTHER -> "onError"]

\* where runLoop goes on when the awaited hook has resolved
AfterHook ==
    [p \in HookAwaits |->
        CASE p = "preHook" -> "execute"
          [] p = "retryHook" -> "retryExecute"
          [] p = "errorHook" -> "terminate"
          [] p = "postHook" -> "stopCheck"
          [] OTHER -> "finally"]

\* the step that resolves an awaited lifecycle hook has the one effect that
\* the position determines
HookResolvesAlike ==
    pc \in HookAwaits =>
        /\ pc' = AfterHook[pc]
        /\ retried' = (retried \/ pc = "retryHook")
        /\ stopReason' = IF pc = "errorHook"
                         THEN ErrorOnIteration(iteration, result.exitCode)
                         ELSE stopReason
        /\ pending' = IF pc = "completeHook"
                      THEN Returned(iteration, stopReason)
                      ELSE pending
        /\ inFlight' = IF pc \in {"preHook", "retryHook"} THEN {"agent"} ELSE {}
        /\ events' = events \o HookEnds(AwaitedHook[pc])
                            \o (IF pc \in {"preHook", "retryHook"}
                                THEN <<Started("agent")>> ELSE << >>)
        /\ UNCHANGED <<config, iteration, lastOutput, result, ledger,
                       ledgerExists, priorLen, sessionDir, isResumed,
                       tempFile, attempts, executions, agentFailed,
                       stopHookRuns, stopHookChild, hookCall, outcome,
                       prior, promptSource, promptCopy, shouldAutoCommit,
                       isGitRepo, commitFor, agent, totalTokens,
                       iterationTokens, parsedCommitMessage,
                       lastParsedCommitMessage, messageUsed, discarded, gitChild>>

\* C20: the lifecycle hooks only observe.  Whatever way the child process
\* of a pre-iteration, post-iteration, on-error or completion hook ends
\* (exit code 0, a nonzero exit code, a failed spawn), the step that
\* resolves the hook leads to one and the same state apart from the
\* recorded outcome of the hook, which no step reads: the same next
\* position, the same iteration counter, executions, ledger, stop reason
\* and result.  Hence two runs that differ only in what their lifecycle
\* hooks do execute the agent alike, append the same records and end with
\* the same stopReason and totalIterations.
C20_HooksObserveOnly == [][HookResolvesAlike]_vars

\* every lifecycle hook is configured, the completion hook failed to spawn
\* after the hooks of two recorded iterations, and the run returned the
\* iteration limit
C20_Witness ==
    /\ pc = "done"
    /\ config.hooks = LifecycleHooks
    /\ hookChild.kind = "error"
    /\ Len(RunRecords) = 2
    /\ outcome = Returned(2, ReachedMax(2))

(* ------------------------------- C21 ---------------------------------- *)

\* the total that the field-wise rule prescribes: a field that the
\* iteration reports is added to the total's value, an absent total
\* counting as 0, and every other field is left as it is in the total
FieldWise(total, usage) ==
    [f \in TokenFields |->
        IF usage[f] # Undefined
        THEN (IF total[f] = Undefined THEN 0 ELSE total[f]) + usage[f]
        ELSE total[f]]

\* C21: accumulateTokens is field-wise over the six usage fields.  Every
\* step that accumulates the usage parsed for an iteration leaves, in each
\* of the six fields, the sum of the total and the reported number (an
\* absent total counting as 0) when the iteration reports the field, and
\* the total's value, undefined included, when it does not.
C21_AccumulateFieldWise ==
    [][(pc = "errorDecision" /\ pc' # pc /\ iterationTokens'.found) =>
          totalTokens' = FieldWise(totalTokens, iterationTokens'.usage)]_vars

\* a run of two iterations, one reporting { inputTokens: 10 } and the other
\* { outputTokens: 5 }: both are in the total and totalTokens is undefined
C21_Witness ==
    /\ pc = "done" /\ Len(RunRecords) = 2
    /\ totalTokens.inputTokens = ReportedIn
    /\ totalTokens.outputTokens = ReportedOut
    /\ totalTokens.totalTokens = Undefined
    /\ totalTokens.cost = Undefined

(* ------------------------------- C22 ---------------------------------- *)

IsSummary(section) == section.type = "summary"

\* the summaries this run wrote
RunSummaries == SelectSeq(RunSections, IsSummary)

\* the summary of this run is in the ledger, behind every other section
SummaryWritten ==
    /\ Len(RunSummaries) = 1
    /\ IsSummary(RunSections[Len(RunSections)])

\* C22: writeSummary is called exactly once in every run that returns,
\* after the last iteration record and never before one, and the
\* completion hook is fired only afterwards.  Before the summary step the
\* run has written no summary; from the call of the completion hook on,
\* and in particular when runLoop has returned, the ledger holds exactly
\* one summary of this run, which is its last section, and it holds every
\* iteration record the run has appended.
C22_SummaryOnceAfterRecords ==
    /\ Len(RunSummaries) <= 1
    /\ (pc \notin {"completeHook", "finally", "done"} \/ Throwing)
          => Len(RunSummaries) = 0
    /\ (hookCall.hook = "onComplete" \/ "onComplete" \in inFlight
        \/ pending.kind = "returned" \/ outcome.kind = "returned")
          => /\ SummaryWritten
             /\ Len(RunRecords) = Len(RunSections) - 2

\* runLoop has returned after two recorded iterations with the completion
\* hook configured: header, two records, summary
C22_Witness ==
    /\ outcome.kind = "returned"
    /\ "onComplete" \in config.hooks /\ Occurs(Ended("onComplete"))
    /\ Len(RunRecords) = 2
    /\ Len(RunSections) = 4
    /\ IsSummary(RunSections[4]) /\ IsIteration(RunSections[3])

(* ------------------------------- C23 ---------------------------------- *)

\* C23: auto-commit is off unless enabled in the configuration.  In a run
\* started from the cli without --no-commit and with git.autoCommit false,
\* performCommit is never called and no git commit is started.
C23_CommitOnlyIfConfigured ==
    (config.autoCommit = CliCommit(FALSE) /\ ~config.gitAutoCommit) =>
        /\ commitFor = "none"
        /\ pc # "gitCommit"

(* ------------------------------- C24 ---------------------------------- *)

GitPositions == {"gitStatus", "gitAdd", "gitRestatus", "gitCommit"}

\* the git commit processes started since the current iteration began
CommitsStarted ==
    Cardinality({k \in 1..Len(events) : events[k] = Started("gitCommit")})

\* C24: with auto-commit active in a git repository, under per-iteration
\* at most one commit is requested per recorded iteration, before its
\* record is appended, and none after the loop; under on-stop none is
\* requested during the iterations and at most one per run, after the loop
\* has ended and before the summary is written.
C24_CommitStrategies ==
    (shouldAutoCommit /\ isGitRepo) =>
        /\ CommitsStarted <= 1
        /\ config.commitStrategy = "per-iteration" =>
             /\ commitFor # "stop"
             /\ pc \in GitPositions =>
                  /\ Recording
                  /\ Len(RunRecords) = iteration - 1
        /\ config.commitStrategy = "on-stop" =>
             /\ commitFor # "iteration"
             /\ pc \in GitPositions =>
                  /\ AfterLoop
                  /\ Len(RunSummaries) = 0
             /\ ~AfterLoop => CommitsStarted = 0

\* under on-stop the one commit of the run has been made after two
\* iterations, and the summary is to be written next
C24_Witness ==
    /\ shouldAutoCommit /\ isGitRepo
    /\ config.commitStrategy = "on-stop"
    /\ pc = "summary" /\ iteration = 2 /\ Len(RunRecords) = 2
    /\ CommitsStarted = 1 /\ Occurs(Ended("gitCommit"))

(* ------------------------------- C25 ---------------------------------- *)

\* the output of the iteration has no COMMIT_MSG marker
NoMarker == \A k \in 1..Len(lastOutput) : lastOutput[k] # Marker

\* C25: when the output of an iteration contains no COMMIT_MSG marker, the
\* message of that iteration's commit is git.commitMessageTemplate with
\* {iteration} and {sessionName} substituted.
C25_TemplateFallback ==
    (commitFor = "iteration" /\ pc \in {"gitAdd", "gitRestatus", "gitCommit"}
     /\ NoMarker) =>
        messageUsed = formatCommitMessage(config.commitMessageTemplate,
                                          iteration, SessionName)

(* ------------------------------- C26 ---------------------------------- *)

\* the positions at which runLoop awaits a git process
GitAwaits == GitPositions \cup {"filesChanged", "diffSummary"}

\* the order in which they and the two steps that follow them are passed
GitRank ==
    [p \in GitAwaits \cup {"record", "summary"} |->
        CASE p = "gitStatus" -> 1
          [] p = "gitAdd" -> 2
          [] p = "gitRestatus" -> 3
          [] p = "gitCommit" -> 4
          [] p = "filesChanged" -> 5
          [] p = "diffSummary" -> 6
          [] OTHER -> 7]

\* Whatever way an awaited git process ends, the step that resolves it
\* changes nothing but the progress of the git calls: the loop state is
\* left as it is, the position moves forward among the git calls, and
\* performCommit returns to the one place its caller determines.
GitResolvesAlike ==
    /\ pc \in GitAwaits =>
        /\ pc' \in GitAwaits \cup {"record", "summary"}
        /\ GitRank[pc'] > GitRank[pc]
        /\ (pc \in GitPositions /\ pc' \notin GitPositions) =>
              pc' = IF commitFor = "stop" THEN "summary" ELSE "filesChanged"
        /\ pc = "filesChanged" => pc' = "diffSummary"
        /\ pc = "diffSummary" => pc' = "record"
        /\ UNCHANGED <<config, iteration, stopReason, lastOutput, result,
                       retried, ledger, ledgerExists, priorLen, sessionDir,
                       isResumed, tempFile, attempts, executions,
                       agentFailed, stopHookRuns, stopHookChild, hookCall,
                       pending, outcome, prior, promptSource, promptCopy,
                       shouldAutoCommit, isGitRepo, hookChild, agent,
                       totalTokens, iterationTokens, parsedCommitMessage,
                       lastParsedCommitMessage, discarded>>
    /\ pc = "record" =>
        /\ ledger' = Append(ledger,
                            IterationSection(iteration,
                                             Status(retried, result.exitCode),
                                             result.exitCode))
        /\ pc' = "postHook"
        /\ UNCHANGED <<iteration, stopReason, result, retried, executions>>

\* C26: git failures never end or alter the loop.  For every outcome of a
\* git process (no changes, a failed status, a staging failure, a commit
\* failure, a failed diff query) the step that resolves it leaves the
\* iteration counter, the executions, the result, the ledger and the stop
\* reason unchanged and leads on to the queries of the diff and to the
\* append of the record, which is built from the iteration number, the
\* retried flag and the exit code alone; a run outside a repository takes
\* the path of a run with auto-commit disabled.  Hence the executions, the
\* records and the stop reason are those of a run without auto-commit.
C26_GitNeverAltersLoop ==
    /\ [][GitResolvesAlike]_vars
    /\ []((shouldAutoCommit /\ ~isGitRepo) => (commitFor = "none" /\ pc \notin GitPositions))

\* in the second iteration staging failed, performCommit returned, the
\* second diff query failed as well, and the record is about to be appended
C26_Witness ==
    /\ pc = "record" /\ iteration = 2 /\ Len(RunRecords) = 1
    /\ shouldAutoCommit /\ isGitRepo
    /\ gitChild = "failed"
    /\ \E k \in 1..(Len(events) - 1) :
          events[k] = Ended("gitAdd") /\ events[k + 1] = Started("gitDiffNames")

(* ------------------------------- C27 ---------------------------------- *)

\* the positions at which a call of the HookExecutor is awaited, with the
\* hook that is called there
HookAwaited ==
    [preHook |-> "preIteration", retryHook |-> "onError",
     errorHook |-> "onError", postHook |-> "postIteration",
     completeHook |-> "onComplete"]

\* C27: the environment of the hooks.  While a call of the HookExecutor is
\* awaited its RL_ITERATION is the current iteration number; the
\* postIteration call carries the exit code stored in the record the
\* iteration has appended, which is the retry's code when a retry happened;
\* the onError call carries the nonzero exit code of the attempt that has
\* just failed; and when runLoop has returned, the onComplete call carried
\* the stop reason and the total of iterations that were returned.
C27_HookEnvironment ==
    /\ pc \in DOMAIN HookAwaited =>
          /\ hookCall.hook = HookAwaited[pc]
          /\ hookCall.RL_ITERATION = iteration
    /\ pc = "postHook" =>
          /\ RunRecords # << >>
          /\ RunRecords[Len(RunRecords)].n = hookCall.RL_ITERATION
          /\ RunRecords[Len(RunRecords)].exitCode = hookCall.RL_EXIT_CODE
          /\ retried => (Len(attempts) = 2 /\ hookCall.RL_EXIT_CODE = attempts[2])
    /\ pc \in {"retryHook", "errorHook"} =>
          /\ attempts # << >>
          /\ hookCall.RL_EXIT_CODE = attempts[Len(attempts)]
          /\ hookCall.RL_EXIT_CODE # 0
    /\ pc = "completeHook" =>
          /\ hookCall.RL_STOP_REASON = stopReason
          /\ hookCall.RL_TOTAL_ITERATIONS = iteration
    /\ (pc = "done" /\ outcome.kind = "returned") =>
          /\ hookCall.hook = "onComplete"
          /\ hookCall.RL_STOP_REASON = outcome.stopReason
          /\ hookCall.RL_TOTAL_ITERATIONS = outcome.totalIterations

\* the post-iteration hook of the second iteration is running after a retry
\* that ended with another exit code than the first attempt
C27_Witness ==
    /\ pc = "postHook" /\ iteration = 2
    /\ "postIteration" \in inFlight
    /\ retried /\ Len(attempts) = 2 /\ attempts[1] # attempts[2]
    /\ hookCall = runPostIteration(2, attempts[2])

(* ------------------------------- C28 ---------------------------------- *)

\* the git processes of performCommit and those of the two diff queries
CommitChildren == {"gitStatus", "gitAdd", "gitCommit"}
DiffChildren == {"gitDiffNames", "gitDiffStat"}

\* number of records the current iteration has appended
Appends == Cardinality({k \in 1..Len(events) : events[k][1] = "record"})

\* C28: the steps of a recorded iteration after the execution follow the
\* per-iteration contract.  The processes of the per-iteration commit
\* precede those of the diff queries, these precede the append of the
\* record, the append precedes the post-iteration hook, and the hook
\* precedes the evaluation of the stop conditions; the record is appended
\* once; it is not in the ledger while the commit and the diff queries
\* run, and it is the last section of the ledger while the post-iteration
\* hook runs and when the stop conditions are evaluated.
C28_RecordedIterationOrder ==
    /\ config.commitStrategy = "per-iteration" =>
          Precede(CommitChildren, DiffChildren)
    /\ Precede(DiffChildren, {"record"})
    /\ Precede({"record"}, {"postIteration"})
    /\ Precede({"record", "postIteration"}, {"stopCheck", "stopHook"})
    /\ Appends <= 1
    /\ Recording =>
          /\ Appends = 0
          /\ Len(RunRecords) = iteration - 1
    /\ pc \in {"postHook", "stopCheck", "stopHook"} =>
          /\ Appends = 1
          /\ Len(RunRecords) = iteration
          /\ ledger[Len(ledger)] =
                IterationSection(iteration, Status(retried, result.exitCode),
                                 result.exitCode)
    /\ "postIteration" \in inFlight => pc = "postHook"

\* the post-iteration hook of the second iteration is running; the
\* iteration committed, queried the diff and appended its record before
C28_Witness ==
    /\ pc = "postHook" /\ iteration = 2
    /\ inFlight = {"postIteration"}
    /\ Occurs(Ended("gitCommit")) /\ Occurs(Ended("gitDiffStat"))
    /\ events[Len(events) - 1] = <<"record", "append">>
    /\ ledger[Len(ledger)].type = "iteration" /\ ledger[Len(ledger)].n = 2

(* ------------------------------- C29 ---------------------------------- *)

\* the state of the loop's state machine at a position of runLoop: the
\* retry test counts as RetryDecision once an attempt has ended with a
\* nonzero exit code, and the on-stop commit belongs to Terminate
MachineState(position, exitCode, wasRetried, commit) ==
    CASE position = "loop" -> "Start"
      [] position = "preHook" -> "PreHook"
      [] position = "execute" -> "Execute"
      [] position \in {"retryDecision", "retryHook", "retryExecute",
                       "errorDecision", "errorHook"} ->
            IF exitCode # 0 \/ wasRetried THEN "RetryDecision" ELSE "Execute"
      [] position \in GitPositions ->
            IF commit = "stop" THEN "Terminate" ELSE "RecordProgress"
      [] position \in {"filesChanged", "diffSummary", "record"} -> "RecordProgress"
      [] position = "postHook" -> "PostHook"
      [] position \in {"stopCheck", "stopHook"} -> "StopCheck"
      [] OTHER -> "Terminate"

\* the order of the states as the state machine is described: PostHook,
\* then RecordProgress
DescribedOrder ==
    [Start |-> {"PreHook", "Terminate"},
     PreHook |-> {"Execute"},
     Execute |-> {"RetryDecision", "PostHook", "Terminate"},
     RetryDecision |-> {"PostHook", "Terminate"},
     PostHook |-> {"RecordProgress"},
     RecordProgress |-> {"StopCheck"},
     StopCheck |-> {"Start", "Terminate"},
     Terminate |-> {}]

\* the order with RecordProgress before PostHook
RecordFirstOrder ==
    [DescribedOrder EXCEPT !.Execute = {"RetryDecision", "RecordProgress", "Terminate"},
                           !.RetryDecision = {"RecordProgress", "Terminate"},
                           !.RecordProgress = {"PostHook"},
                           !.PostHook = {"StopCheck"}]

\* a step that changes the state of the machine follows `order`
Follows(order) ==
    LET from == MachineState(pc, result.exitCode, retried, commitFor)
        to == MachineState(pc', result'.exitCode, retried', commitFor')
    IN  (pc \notin {"start", "build"} /\ from # to) => to \in order[from]

\* C29 as stated: each iteration passes through PreHook, Execute,
\* RetryDecision (on nonzero exit), PostHook, RecordProgress, StopCheck in
\* this order, and the post-iteration hook has completed before the
\* iteration's record is appended.
C29_PostHookBeforeRecord ==
    /\ [][Follows(DescribedOrder)]_vars
    /\ [](Precede({"postIteration"}, {"record"}))

\* C29 amended: each iteration passes through PreHook, Execute,
\* RetryDecision (on nonzero exit), RecordProgress, PostHook, StopCheck in
\* this order, and the iteration's record has been appended before the
\* post-iteration hook is called.
C29_RecordBeforePostHook ==
    /\ [][Follows(RecordFirstOrder)]_vars
    /\ [](/\ Precede({"record"}, {"postIteration"})
          /\ pc = "postHook" =>
                (Appends = 1 /\ hookCall.hook = "postIteration"))

\* the stop conditions of an iteration with a retry are about to be
\* evaluated: its record was appended and then its post-iteration hook ran
C29_Witness ==
    /\ pc = "stopCheck" /\ retried
    /\ Occurs(Ended("preIteration")) /\ Occurs(Ended("onError"))
    /\ \E k \in 1..(Len(events) - 2) :
          /\ events[k] = <<"record", "append">>
          /\ events[k + 1] = Started("postIteration")
          /\ events[k + 2] = Ended("postIteration")
          /\ k + 2 = Len(events)

(* ------------------------------- C30 ---------------------------------- *)

\* stdout + stderr of the result the iteration ended with: the retry's
\* when a retry happened
FinalOutput == result.stdout \o result.stderr

\* the output of the iteration has been parsed and the iteration is not
\* over
OutputParsed == Recording \/ pc \in {"postHook", "stopCheck", "stopHook"}

\* the stop conditions decide as checkStopConditions decides on the final
\* output alone
StopsOnFinalOutput ==
    pc = "stopCheck" =>
        LET final == checkStopConditions(
                         config, [stopContext EXCEPT !.output = FinalOutput])
        IN  /\ (stopReason' = PatternMatched(config.pattern)) <=>
                  /\ ~final.threw
                  /\ final.shouldStop
                  /\ final.reason = PatternMatched(config.pattern)
            /\ stopReason' = PatternMatched(config.pattern) =>
                  RegExpTest(config.pattern, FinalOutput)

\* C30: the output pattern is tested against the final captured
\* stdout + stderr of the iteration only.  The output of a first attempt
\* that was retried is replaced: whether the loop stops by the pattern is
\* decided by the final output alone, whatever the replaced output
\* contained, and the token usage and the commit message of the iteration
\* are those parsed from the final output.
C30_FinalOutputOnly ==
    /\ [][StopsOnFinalOutput]_vars
    /\ [](OutputParsed =>
            /\ lastOutput = FinalOutput
            /\ iterationTokens = parseClaudeCodeTokens(FinalOutput)
            /\ parsedCommitMessage = parseCommitMessage(FinalOutput)
            /\ lastParsedCommitMessage = parsedCommitMessage)
    /\ []((pc \in GitPositions \ {"gitStatus"} /\ commitFor = "iteration") =>
            messageUsed = IF Truthy(parseCommitMessage(FinalOutput))
                          THEN parseCommitMessage(FinalOutput)
                          ELSE fallbackMessage(iteration, SessionName))

\* the first attempt printed a usage line, the commit marker and the text
\* the pattern matches, the retry printed another usage line only: the
\* pattern did not stop the loop, the stop hook is running, and the usage
\* and the commit message are those of the retry
C30_Witness ==
    /\ pc = "stopHook" /\ iteration = 1 /\ retried
    /\ discarded = <<(<<UsageIn, Marker, "D", "E">>)>>
    /\ RegExpTest(config.pattern, discarded[1])
    /\ lastOutput = <<UsageOut>>
    /\ ~RegExpTest(config.pattern, lastOutput)
    /\ stopReason = Unknown
    /\ iterationTokens.found
    /\ iterationTokens.usage.inputTokens = Undefined
    /\ iterationTokens.usage.outputTokens = ReportedOut
    /\ parsedCommitMessage = NoMessage

(* ------------------------------- C31 ---------------------------------- *)

\* a usage with at least one of the six fields set
Reports(usage) == \E f \in TokenFields : usage[f] # Undefined

\* some iteration this run recorded reported a usage
SomeRecordReports ==
    \E k \in 1..Len(RunRecords) :
        RunRecords[k].tokens.found /\ Reports(RunRecords[k].tokens.usage)

\* C31: the summary carries the accumulated token usage if and only if at
\* least one recorded iteration reported at least one of the six usage
\* fields, and the usage it carries is the accumulated one; a run whose
\* iterations reported only the cost has its usage in the summary too.
C31_SummaryCarriesUsage ==
    SummaryWritten =>
        /\ RunSummaries[1].tokens.found <=> SomeRecordReports
        /\ RunSummaries[1].tokens.found =>
              RunSummaries[1].tokens.usage = totalTokens

(* ------------------------------- C32 ---------------------------------- *)

\* the loop is left without a reason: no error, no pattern match and no
\* stop hook ended it
LeftByCondition == pc = "terminate" /\ stopReason = Unknown

\* a loop left without a reason has made maxIterations iterations and gets
\* the reason "Reached max iterations (N)"
ReachedMaxByDefault ==
    LeftByCondition =>
        /\ iteration = config.maxIterations
        /\ stopReason' = ReachedMax(config.maxIterations)

\* C32: when every child process ends, every run ends, whether the
\* max-iterations stop condition is enabled or not: at most maxIterations
\* iterations are started, at most 2 * maxIterations executions are made,
\* a loop that no other condition ended after iteration maxIterations gets
\* the reason "Reached max iterations (N)", and runLoop returns or throws.
C32_LoopTerminates ==
    /\ [](/\ iteration <= config.maxIterations
          /\ executions <= 2 * config.maxIterations
          /\ Len(RunRecords) <= config.maxIterations)
    /\ [][ReachedMaxByDefault]_vars
    /\ <>(pc = "done")

\* a run with the max-iterations stop condition disabled has returned
\* after maxIterations iterations, each with a retry, with the reason
\* "Reached max iterations (N)"
C32_Witness ==
    /\ pc = "done" /\ outcome.kind = "returned"
    /\ ~config.stopMaxIterations
    /\ iteration = config.maxIterations /\ iteration = MaxIter
    /\ executions = 2 * config.maxIterations
    /\ outcome.stopReason = ReachedMax(config.maxIterations)

(* ------------------------------- C33 ---------------------------------- *)

\* the reasons runLoop sets: max iterations, pattern match, stop hook,
\* error exit, execution error
SetReasons ==
    {ReachedMax(config.maxIterations), PatternMatched(config.pattern),
     StopHookSuccess(config.hookCommand), ExecutionError}
    \cup {ErrorOnIteration(n, x) : n \in 1..config.maxIterations,
                                   x \in ExitCodes \ {0}}

\* C33: the stop reason written to the summary, passed to the onComplete
\* hook and returned by runLoop is never the initial "unknown": it is one
\* of the reasons for max iterations, a pattern match, the stop hook, an
\* error exit or an execution error.
C33_ReasonNeverUnknown ==
    /\ Unknown \notin SetReasons
    /\ \A k \in 1..Len(RunSummaries) : RunSummaries[k].reason \in SetReasons
    /\ hookCall.hook = "onComplete" => hookCall.RL_STOP_REASON \in SetReasons
    /\ pending.kind = "returned" => pending.stopReason \in SetReasons
    /\ outcome.kind = "returned" => outcome.stopReason \in SetReasons
    /\ pc \in {"summary", "completeHook"} => stopReason \in SetReasons

\* a run with every stop condition disabled has returned: the summary, the
\* onComplete call and the result carry the max-iterations reason
C33_Witness ==
    /\ pc = "done" /\ outcome.kind = "returned"
    /\ ~config.stopMaxIterations /\ ~config.patternEnabled /\ ~config.hookEnabled
    /\ SummaryWritten
    /\ RunSummaries[1].reason = ReachedMax(config.maxIterations)
    /\ hookCall.RL_STOP_REASON = RunSummaries[1].reason
    /\ outcome.stopReason = RunSummaries[1].reason

(* ------------------------------- C34 ---------------------------------- *)

\* the record that is appended carries the status of the iteration: retried
\* iff the agent was executed twice, otherwise completed on exit code 0 and
\* failed on another
RecordsStatus ==
    pc = "record" =>
        LET record == ledger'[Len(ledger')] IN
        /\ Len(ledger') = Len(ledger) + 1
        /\ record.exitCode = attempts[Len(attempts)]
        /\ record.status = "retried" <=> Len(attempts) = 2
        /\ record.status = "completed" <=> (Len(attempts) = 1 /\ attempts[1] = 0)
        /\ record.status = "failed" <=> (Len(attempts) = 1 /\ attempts[1] # 0)

\* C34: the status of a record is determined by the retried flag and the
\* exit code: retried iff a retry was performed in the iteration, whatever
\* its exit code, otherwise completed iff the exit code is 0 and failed iff
\* it is not.  Hence failed records appear under strategy continue only,
\* retried ones under retry-once only, a completed record has exit code 0,
\* and under strategy stop no record has a nonzero exit code.
C34_StatusDetermined ==
    /\ [][RecordsStatus]_vars
    /\ [](\A k \in 1..Len(RunRecords) :
            LET record == RunRecords[k] IN
            /\ record.status \in {"retried", "completed", "failed"}
            /\ record.status = "failed" =>
                  (config.strategy = "continue" /\ record.exitCode # 0)
            /\ record.status = "retried" => config.strategy = "retry-once"
            /\ record.status = "completed" => record.exitCode = 0
            /\ config.strategy = "stop" => record.exitCode = 0)

\* two iterations under retry-once: the first retried and failed again,
\* the second was retried with success
C34_Witness ==
    /\ pc = "done" /\ config.strategy = "retry-once"
    /\ Len(RunRecords) = 2
    /\ RunRecords[1].status = "retried" /\ RunRecords[1].exitCode # 0
    /\ RunRecords[2].status = "retried" /\ RunRecords[2].exitCode = 0

(* ------------------------------- C35 ---------------------------------- *)

\* number of times the current iteration has started the onError hook
OnErrorStarts ==
    Cardinality({k \in 1..Len(events) : events[k] = Started("onError")})

\* the first attempt of the iteration ended with a nonzero exit code and
\* the error handling has decided on it
FirstAttemptFailed ==
    /\ attempts # << >> /\ attempts[1] \notin {0, Rejected.exitCode}
    /\ pc # "retryDecision"
    /\ ~(pc = "errorDecision" /\ Len(attempts) = 1)

\* C35: with an onError hook configured, the hook is started at most once
\* per iteration: exactly once when the first attempt exits nonzero under
\* strategy stop, after which the loop ends, or under retry-once, where it
\* has completed before the retry starts and is not started again when the
\* retry fails too; never under continue and never in an iteration whose
\* first attempt exits 0.
C35_OnErrorAtMostOnce ==
    "onError" \in config.hooks =>
        /\ OnErrorStarts <= 1
        /\ OnErrorStarts = 1 <=>
              (FirstAttemptFailed /\ config.strategy \in {"stop", "retry-once"})
        /\ (OnErrorStarts = 1 /\ config.strategy = "stop") =>
              /\ pc = "errorHook" \/ AfterLoop
              /\ Len(attempts) = 1
        /\ \A k \in 1..Len(events) :
              (events[k] = Started("agent")
                 /\ CountBefore(Started("agent"), k) = 1) =>
                    /\ config.strategy = "retry-once"
                    /\ CountBefore(Started("onError"), k) = 1
                    /\ CountBefore(Ended("onError"), k) = 1
        /\ "onError" \in inFlight => pc \in {"retryHook", "errorHook"}

\* under retry-once both attempts of the second iteration failed: the hook
\* ran once, before the retry, and the stop conditions are evaluated next
C35_Witness ==
    /\ "onError" \in config.hooks /\ config.strategy = "retry-once"
    /\ pc = "stopCheck" /\ iteration = 2
    /\ Len(attempts) = 2 /\ attempts[1] # 0 /\ attempts[2] # 0
    /\ OnErrorStarts = 1

(* ------------------------------- C36 ---------------------------------- *)

\* the field-wise sum of the token snapshots of a sequence of records
RECURSIVE SumOfSnapshots(_)
SumOfSnapshots(records) ==
    IF records = << >> THEN NoUsage
    ELSE FieldWise(SumOfSnapshots(SubSeq(records, 1, Len(records) - 1)),
                   records[Len(records)].tokens.usage)

\* C36: once the loop has ended, the accumulated token total is the
\* field-wise sum of the token snapshots in the iteration records this run
\* appended.  The usage printed by a first attempt that was retried, and
\* by the iteration that ended the loop under strategy stop or by a thrown
\* execution error, is in no record and not in the total.
C36_TotalIsSumOfRecords ==
    (AfterLoop \/ pc = "loop") => totalTokens = SumOfSnapshots(RunRecords)

\* under strategy stop the first iteration recorded the usage of its
\* output tokens; the second printed a usage of input tokens and failed:
\* the run has ended with the total of the first record alone
C36_Witness ==
    /\ pc = "done" /\ config.strategy = "stop"
    /\ iteration = 2 /\ Len(RunRecords) = 1
    /\ RunRecords[1].tokens = Parsed([NoUsage EXCEPT !.outputTokens = ReportedOut])
    /\ \E k \in 1..Len(lastOutput) : lastOutput[k] = UsageIn
    /\ totalTokens = [NoUsage EXCEPT !.outputTokens = ReportedOut]

(* ------------------------------- C37 ---------------------------------- *)

\* the last execution of the agent ended the loop: it was rejected, or it
\* exited nonzero under strategy stop
AgentEndedLoop ==
    /\ attempts # << >>
    /\ \/ attempts[Len(attempts)] = Rejected.exitCode
       \/ config.strategy = "stop" /\ attempts[Len(attempts)] # 0

\* C37: every normal return of runLoop has success = true, also when the
\* loop was ended by strategy stop or by a thrown execution error; the
\* failure of the agent shows in the stop reason of the result only.
C37_ReturnsSucceed ==
    /\ pending.kind = "returned" => pending.success
    /\ outcome.kind = "returned" =>
          /\ outcome.success
          /\ outcome.error = NoError
          /\ AgentEndedLoop =>
                outcome.stopReason =
                    IF attempts[Len(attempts)] = Rejected.exitCode
                    THEN ExecutionError
                    ELSE ErrorOnIteration(iteration, attempts[Len(attempts)])

\* under strategy stop the second iteration exited nonzero and runLoop has
\* returned with success = true and the error in its stop reason
C37_Witness ==
    /\ pc = "done" /\ outcome.kind = "returned"
    /\ config.strategy = "stop" /\ iteration = 2
    /\ attempts = <<MaxExit>> /\ agentFailed
    /\ outcome.success
    /\ outcome.stopReason = ErrorOnIteration(2, MaxExit)

(* ------------------------------- C38 ---------------------------------- *)

\* C38: accumulateTokens is order-independent and has the empty usage as
\* its identity.  For the total t and the usage a at hand and every usage
\* b, accumulating a and then b gives in each field what accumulating b
\* and then a gives, and accumulating the empty usage leaves every field
\* of t as it is, an undefined field undefined.
C38_AccumulateCommutes ==
    pc \in {"accumulateTokens", "accumulated"} =>
        LET t == totalTokens
            a == iterationTokens.usage
        IN  /\ \A b \in Usages : \A f \in TokenFields :
                  accumulateTokens(accumulateTokens(t, a), b)[f]
                      = accumulateTokens(accumulateTokens(t, b), a)[f]
            /\ \A f \in TokenFields :
                  /\ accumulateTokens(t, NoUsage)[f] = t[f]
                  /\ t[f] = Undefined =>
                        accumulateTokens(t, NoUsage)[f] = Undefined

\* a usage of input tokens has been accumulated into a total that had
\* MaxTokens input tokens and no other field; the other fields are still
\* undefined
C38_Witness ==
    /\ pc = "accumulated"
    /\ iterationTokens.usage = [NoUsage EXCEPT !.inputTokens = MaxReported]
    /\ totalTokens = [NoUsage EXCEPT !.inputTokens = MaxTokens + MaxReported]

====
